---- MODULE Spec2Model ----
(***************************************************************************)
(* Model of export_obj_so.py: the Wavefront OBJ/MTL writer (write_file,    *)
(* write_nurb, write_mtl).                                                 *)
(*                                                                         *)
(* Text is modelled as sequences of one-character strings, so that         *)
(* name_compat, the "%s_%s" / "_%3d" formats and Python's string order     *)
(* are computed character by character.  Python's None is NoneV.  Floats   *)
(* are fixed-point integers in units of 10^-5, so that round(x, 4) is a    *)
(* real quantisation.  Python's bool is an int (False = 0, True = 1), as   *)
(* in Python's own comparisons.  Indices into Blender's arrays are 0-based *)
(* as in the source; TLA+ sequences are indexed at index + 1.              *)
(***************************************************************************)
EXTENDS Integers, Sequences, FiniteSets, TLC

VARIABLES
    objects,          \* write_file's 'objects' argument (evaluated snapshots)
    opt,              \* write_file's EXPORT_* arguments
    pc,               \* position in write_file
    obi,              \* index in 'objects' of the object being processed
    totverts,         \* global counters, line 287
    totuvco,
    totno,
    mtl_dict,         \* insertion-ordered dict: sequence of [key, name, mat]
    mtl_rev_dict,     \* dict mtl_name -> key
    face_index_pairs, \* polygon indices of the current mesh, in emission order
    fpos,             \* number of faces of the current mesh already emitted
    contextMat,
    contextSmooth,
    uv_unique_count,
    no_unique_count,
    uv_face_mapping,  \* polygon index + 1 -> sequence of local uv indices
    loops_to_normals, \* loop index + 1 -> local normal index
    currentVGroup,    \* the vertex group of the last 'g' line of the mesh
    obj,              \* lines written to the .obj file
    mtl               \* lines written to the .mtl file

vars == <<objects, opt, pc, obi, totverts, totuvco, totno, mtl_dict,
          mtl_rev_dict, face_index_pairs, fpos, contextMat, contextSmooth,
          uv_unique_count, no_unique_count, uv_face_mapping,
          loops_to_normals, currentVGroup, obj, mtl>>

----------------------------------------------------------------------------
(* Generic helpers *)

Range(s) == {s[i] : i \in 1..Len(s)}

Min(a, b) == IF a <= b THEN a ELSE b

RECURSIVE Flatten(_)
Flatten(ss) == IF ss = <<>> THEN <<>> ELSE Head(ss) \o Flatten(Tail(ss))

RECURSIVE SumSeq(_)
SumSeq(s) == IF s = <<>> THEN 0 ELSE Head(s) + SumSeq(Tail(s))

\* Number of elements of s satisfying the test.
Count(s, Test(_)) == Cardinality({i \in 1..Len(s) : Test(s[i])})

\* All sequences over S of length at most n.
SeqUpTo(S, n) == UNION {[1..k -> S] : k \in 0..n}

----------------------------------------------------------------------------
(* Text *)

\* Python's None (a value no text equals).
NoneV == <<"None">>

\* The text "None" returned by name_compat(None).
TextNone == <<"N", "o", "n", "e">>

\* The characters used, in code point order.
Alphabet == <<" ", "(", ")", "0", "1", "2", "3", "4", "5", "6", "7", "8",
              "9", "E", "M", "N", "O", "_", "a", "b", "c", "e", "l", "n", "o",
              "u">>

Ord(c) == CHOOSE i \in 1..Len(Alphabet) : Alphabet[i] = c

\* Python's str '<' : lexicographic by code point, a proper prefix is smaller.
RECURSIVE StrLess(_, _)
StrLess(a, b) ==
    IF b = <<>> THEN FALSE
    ELSE IF a = <<>> THEN TRUE
    ELSE IF Head(a) = Head(b) THEN StrLess(Tail(a), Tail(b))
    ELSE Ord(Head(a)) < Ord(Head(b))

\* name.replace(" ", "_")
ReplaceSpaces(name) ==
    [i \in 1..Len(name) |-> IF name[i] = " " THEN "_" ELSE name[i]]

name_compat(name) == IF name = NoneV THEN TextNone ELSE ReplaceSpaces(name)

Digit(d) == Alphabet[d + 4]

\* "%d" % n for n >= 0
RECURSIVE Decimal(_)
Decimal(n) == IF n < 10 THEN <<Digit(n)>>
              ELSE Decimal(n \div 10) \o <<Digit(n % 10)>>

\* Mutant: "%d" % n, no padding.
Unpadded(n) == Decimal(n)

\* "%3d" % n : right-justified in a field of 3, padded with spaces
Pad3(n) == LET d == Decimal(n)
           IN  [i \in 1..(IF Len(d) < 3 THEN 3 - Len(d) ELSE 0) |-> " "] \o d

----------------------------------------------------------------------------
(* Numbers *)

\* round(x, 4) of a value given in units of 10^-5: the nearest multiple of
\* 10 units, a tie going to the even multiple.
Round4(x) ==
    LET lo == (x \div 10) * 10
        r  == x - lo
    IN  IF r < 5 THEN lo
        ELSE IF r > 5 THEN lo + 10
        ELSE IF (lo \div 10) % 2 = 0 THEN lo ELSE lo + 10

veckey3d(v) == <<Round4(v[1]), Round4(v[2]), Round4(v[3])>>

veckey2d(v) == <<Round4(v[1]), Round4(v[2])>>

----------------------------------------------------------------------------
(* Output lines.  'ob' is the index in 'objects' of the object the line was *)
(* written for (0 for the file-level lines); it is not part of the text.    *)

Line(t, x, ob) == [t |-> t, x |-> x, ob |-> ob]

----------------------------------------------------------------------------
(* write_nurb *)

DegOrderU(nu) == IF nu.type = "POLY" THEN 1 ELSE nu.order_u - 1

\* The three 'continue' tests of the spline loop.
NurbSkipped(nu) ==
    \/ nu.type = "BEZIER"
    \/ nu.point_count_v > 1
    \/ nu.npoints <= DegOrderU(nu)

\* s[0:d] for d >= 0
SliceTo(s, d) == SubSeq(s, 1, Min(d, Len(s)))

\* Mutant: -i for i in range(pt_num).
BaseCurveLsFromZero(n) == [i \in 1..n |-> -(i - 1)]

BaseCurveLs(n) == [i \in 1..n |-> -i]

\* Mutant: one closing index whatever the degree.
ClosedCurveLsOneExtra(n, d) == Append(BaseCurveLs(n), -1)

ClosedCurveLs(n, d) ==
    IF d = 1 THEN Append(BaseCurveLs(n), -1)
    ELSE BaseCurveLs(n) \o SliceTo(BaseCurveLs(n), d)

\* curve_ls as written on the 'curv' line
CurveLs(nu) ==
    IF nu.use_cyclic_u THEN ClosedCurveLs(nu.npoints, DegOrderU(nu))
    ELSE BaseCurveLs(nu.npoints)

\* pt_num after the 'curv' block
PtNum(nu) ==
    IF nu.use_cyclic_u
    THEN (IF DegOrderU(nu) = 1 THEN nu.npoints + 1
          ELSE nu.npoints + DegOrderU(nu))
    ELSE nu.npoints

TotParm(nu) == (DegOrderU(nu) + 1) + PtNum(nu)

\* Mutant: the endpoint flag alone decides.
DoEndpointsWhenClosedToo(nu) == nu.use_endpoint_u

DoEndpoints(nu) == (~nu.use_cyclic_u) /\ nu.use_endpoint_u

\* The loop 'for i in range(DEG_ORDER_U + 1)' from i on; parameter values
\* are fractions <<numerator, denominator>>.
RECURSIVE ForceEndpoints(_, _, _)
ForceEndpoints(parm_ls, i, d) ==
    IF i > d THEN parm_ls
    ELSE LET L  == Len(parm_ls)
             p1 == [parm_ls EXCEPT ![i + 1] = <<0, 1>>]
             p2 == [p1 EXCEPT ![L - i] = <<1, 1>>]
         IN  ForceEndpoints(p2, i + 1, d)

ParmLs(nu) ==
    LET tot_parm == TotParm(nu)
        uniform  == [i \in 1..tot_parm |-> <<i - 1, tot_parm - 1>>]
    IN  IF DoEndpoints(nu) THEN ForceEndpoints(uniform, 0, DegOrderU(nu))
        ELSE uniform

\* "%.6f" % (n / d), in units of 10^-6
Fmt6(q) == (2 * q[1] * 1000000 + q[2]) \div (2 * q[2])

\* The lines written for spline k (1-based) of the curve, when it is not
\* skipped.  'nu' on the curv and parm lines tells which spline they are for;
\* it is not part of the text.
NurbLines(nu, k, ob, obName) ==
    [i \in 1..nu.npoints |-> Line("v", i - 1, ob)]
    \o << Line("g", name_compat(obName), ob),
          Line("cstype", "bspline", ob),
          Line("deg", DegOrderU(nu), ob),
          Line("curv", [tokens |-> CurveLs(nu), nu |-> k], ob),
          Line("parm", [values |-> [i \in 1..Len(ParmLs(nu)) |->
                                       Fmt6(ParmLs(nu)[i])],
                        nu |-> k], ob),
          Line("end", <<>>, ob) >>

\* The loop of write_nurb from spline k on: the lines written and the
\* vertices counted.
RECURSIVE NurbLoop(_, _, _, _)
NurbLoop(splines, k, ob, obName) ==
    IF k > Len(splines) THEN [lines |-> <<>>, tot_verts |-> 0]
    ELSE LET nu   == splines[k]
             rest == NurbLoop(splines, k + 1, ob, obName)
         IN  IF NurbSkipped(nu) THEN rest
             ELSE [lines     |-> NurbLines(nu, k, ob, obName) \o rest.lines,
                   tot_verts |-> nu.npoints + rest.tot_verts]

\* Mutant: the value returned is the sum of pt_num as it stands after the
\* 'curv' block, wrap-around indices included.
write_nurb_counts_wrapped(splines, ob, obName) ==
    [lines     |-> NurbLoop(splines, 1, ob, obName).lines,
     tot_verts |-> SumSeq([k \in 1..Len(splines) |->
                      IF NurbSkipped(splines[k]) THEN 0
                      ELSE PtNum(splines[k])])]

\* write_nurb(fw, ob, ob_mat): the lines written and the value returned.
write_nurb(splines, ob, obName) == NurbLoop(splines, 1, ob, obName)

\* Mutant: the object qualifies only when all of its splines do.
test_nurbs_compat_every(ob) ==
    /\ ob.type = "CURVE"
    /\ \A i \in 1..Len(ob.splines) :
          ob.splines[i].point_count_v = 1 /\ ob.splines[i].type # "BEZIER"

test_nurbs_compat(ob) ==
    /\ ob.type = "CURVE"
    /\ \E i \in 1..Len(ob.splines) :
          ob.splines[i].point_count_v = 1 /\ ob.splines[i].type # "BEZIER"

----------------------------------------------------------------------------
(* write_file: the per-mesh computations *)

Bool(b) == IF b THEN 1 ELSE 0

\* An empty material slot (None in me.materials).
NoMat == [name |-> NoneV, image |-> NoneV]

Poly(me, f_index) == me.polygons[f_index + 1]

LoopIndices(f) == [i \in 1..Len(f.vertices) |-> f.loop_start + (i - 1)]

FaceUV(me) == IF opt.EXPORT_UV THEN me.has_uv ELSE FALSE

Edges(me) == IF opt.EXPORT_EDGES THEN me.edges ELSE <<>>

\* "Make sure there is something to write"
NothingToWrite(me) == Len(me.polygons) + Len(Edges(me)) + me.nverts = 0

\* smooth_groups: () when disabled, when there is no face, or when
\* calc_smooth_groups found at most one group.
SmoothGroups(me) ==
    IF (opt.EXPORT_SMOOTH_GROUPS \/ opt.EXPORT_SMOOTH_GROUPS_BITFLAGS)
       /\ me.polygons # <<>>
    THEN (IF me.smooth_groups_tot <= 1 THEN <<>> ELSE me.smooth_groups)
    ELSE <<>>

Materials(me) == IF me.materials = <<>> THEN <<NoMat>> ELSE me.materials

\* Mutant: every slot named through name_compat, the empty ones too.
MaterialNamesAllCompat(me) ==
    IF me.materials = <<>> THEN <<name_compat(NoneV)>>
    ELSE [i \in 1..Len(me.materials) |-> name_compat(me.materials[i].name)]

MaterialNames(me) ==
    IF me.materials = <<>> THEN <<name_compat(NoneV)>>
    ELSE [i \in 1..Len(me.materials) |->
             IF me.materials[i] = NoMat THEN NoneV ELSE me.materials[i].name]

\* sort_func, as a tuple of ints
SortKey(me, f_index) ==
    LET f  == Poly(me, f_index)
        sg == SmoothGroups(me)
    IN  IF Len(Materials(me)) > 1
        THEN (IF sg # <<>>
              THEN <<f.material_index,
                     IF f.use_smooth THEN sg[f_index + 1] ELSE 0>>
              ELSE <<f.material_index, Bool(f.use_smooth)>>)
        ELSE (IF sg # <<>>
              THEN <<sg[(IF f.use_smooth THEN f_index ELSE 0) + 1]>>
              ELSE <<Bool(f.use_smooth)>>)

\* Python's tuple '<' on int tuples of equal length
RECURSIVE TupleLess(_, _)
TupleLess(a, b) ==
    IF a = <<>> THEN FALSE
    ELSE IF Head(a) = Head(b) THEN TupleLess(Tail(a), Tail(b))
    ELSE Head(a) < Head(b)

\* list.sort(key=...) is stable: x goes behind every element whose key is
\* not greater than its own.
RECURSIVE InsertByKey(_, _, _)
InsertByKey(sorted, x, me) ==
    IF sorted = <<>> THEN <<x>>
    ELSE IF TupleLess(SortKey(me, x), SortKey(me, Head(sorted)))
         THEN <<x>> \o sorted
         ELSE <<Head(sorted)>> \o InsertByKey(Tail(sorted), x, me)

RECURSIVE SortFaces(_, _)
SortFaces(idxs, me) ==
    IF idxs = <<>> THEN <<>>
    ELSE InsertByKey(SortFaces(SubSeq(idxs, 1, Len(idxs) - 1), me),
                     idxs[Len(idxs)], me)

\* Mutant: the faces sorted whatever EXPORT_KEEP_VERT_ORDER says.
FaceIndexPairsAlwaysSorted(me) ==
    SortFaces([i \in 1..Len(me.polygons) |-> i - 1], me)

FaceIndexPairs(me) ==
    LET original == [i \in 1..Len(me.polygons) |-> i - 1]
    IN  IF opt.EXPORT_KEEP_VERT_ORDER THEN original
        ELSE SortFaces(original, me)

ObNameString(ob) ==
    IF ob.name = ob.data_name THEN name_compat(ob.name)
    ELSE name_compat(ob.name) \o <<"_">> \o name_compat(ob.data_name)

\* The loops visited by 'for f, f_index in face_index_pairs: for ... in
\* enumerate(f.loop_indices)', in order.
LoopRefs(me, fip) ==
    Flatten([k \in 1..Len(fip) |->
        [c \in 1..Len(Poly(me, fip[k]).vertices) |->
            [f_index |-> fip[k],
             l_index |-> Poly(me, fip[k]).loop_start + (c - 1)]]])

\* dict[k] = v
Put(d, k, v) == [x \in (DOMAIN d) \cup {k} |-> IF x = k THEN v ELSE d[x]]

\* Mutant: the key without the vertex index (UVs shared between vertices).
uv_key_shared(me, l_index) == <<0, veckey2d(me.loops[l_index + 1].uv)>>

uv_key(me, l_index) ==
    <<me.loops[l_index + 1].vertex_index, veckey2d(me.loops[l_index + 1].uv)>>

\* The UV loop, lines 479-495.  st = [dict, count, lines, mapping].
RECURSIVE UvPass(_, _, _, _)
UvPass(me, refs, ob, st) ==
    IF refs = <<>> THEN st
    ELSE LET r      == Head(refs)
             key    == uv_key(me, r.l_index)
             found  == key \in DOMAIN st.dict
             uv_val == IF found THEN st.dict[key] ELSE st.count
             st2    == IF found THEN st
                       ELSE [st EXCEPT
                               !.dict  = Put(st.dict, key, st.count),
                               !.lines = Append(@, Line("vt",
                                            me.loops[r.l_index + 1].uv, ob)),
                               !.count = @ + 1]
         IN  UvPass(me, Tail(refs), ob,
                    [st2 EXCEPT !.mapping[r.f_index + 1] = Append(@, uv_val)])

\* Mutant: the normal key taken per vertex, as the UV key is.
no_key_per_vertex(me, l_index) ==
    <<me.loops[l_index + 1].vertex_index>> \o veckey3d(me.loops[l_index + 1].normal)

no_key(me, l_index) == veckey3d(me.loops[l_index + 1].normal)

\* The normal loop, lines 517-527.  st = [dict, count, lines, mapping].
RECURSIVE NormalPass(_, _, _, _)
NormalPass(me, refs, ob, st) ==
    IF refs = <<>> THEN st
    ELSE LET r      == Head(refs)
             key    == no_key(me, r.l_index)
             found  == key \in DOMAIN st.dict
             no_val == IF found THEN st.dict[key] ELSE st.count
             st2    == IF found THEN st
                       ELSE [st EXCEPT
                               !.dict  = Put(st.dict, key, st.count),
                               !.lines = Append(@, Line("vn", key, ob)),
                               !.count = @ + 1]
         IN  NormalPass(me, Tail(refs), ob,
                        [st2 EXCEPT !.mapping[r.l_index + 1] = no_val])

----------------------------------------------------------------------------
(* write_file: the face loop *)

f_smooth_of(me, f_index) ==
    LET f == Poly(me, f_index)
    IN  IF f.use_smooth /\ SmoothGroups(me) # <<>>
        THEN SmoothGroups(me)[f_index + 1]
        ELSE Bool(f.use_smooth)

f_mat_of(me, f_index) ==
    Min(Poly(me, f_index).material_index, Len(Materials(me)) - 1)

\* MAKE KEY
MakeKey(me, f_index) == <<MaterialNames(me)[f_mat_of(me, f_index) + 1], NoneV>>

\* key[0] is None and key[1] is None
IsNullKey(key) == key[1] = NoneV /\ key[2] = NoneV

\* mtl_dict.get(key) is not None
HasKey(dict, key) == \E i \in 1..Len(dict) : dict[i].key = key

\* mtl_dict[key], for a key of the dict
DictGet(dict, key) == dict[CHOOSE i \in 1..Len(dict) : dict[i].key = key]

\* mtl_rev_dict.get(name, None) not in {key, None}
Claimed(rev, name, key) ==
    IF name \in DOMAIN rev THEN rev[name] # key ELSE FALSE

\* Mutant: the suffix tested once ('if' for 'while').
SuffixOnce(rev, mtl_name, key, i, tmp_ext) ==
    IF Claimed(rev, mtl_name \o tmp_ext, key) THEN <<"_">> \o Pad3(i + 1)
    ELSE tmp_ext

\* The 'while' of lines 609-613, entered with counter i and suffix tmp_ext.
RECURSIVE SuffixLoop(_, _, _, _, _)
SuffixLoop(rev, mtl_name, key, i, tmp_ext) ==
    IF Claimed(rev, mtl_name \o tmp_ext, key)
    THEN SuffixLoop(rev, mtl_name, key, i + 1, <<"_">> \o Pad3(i + 1))
    ELSE tmp_ext

FirstExt(key) ==
    IF key[2] = NoneV THEN <<"_", "N", "O", "N", "E">>
    ELSE <<"_">> \o name_compat(key[2])

\* Mutant: the name always made of material and image ("matname_imagename").
NewMtlNameWithImage(rev, key) == name_compat(key[1]) \o FirstExt(key)

\* The name given to a key that is not in mtl_dict, lines 599-614.
\* Mutant: the base name taken whoever holds it.
NewMtlNameUnchecked(rev, key) == name_compat(key[1])

NewMtlName(rev, key) ==
    LET mtl_name == name_compat(key[1])
    IN  IF Claimed(rev, mtl_name, key)
        THEN mtl_name \o SuffixLoop(rev, mtl_name, key, 0, FirstExt(key))
        ELSE mtl_name

\* Mutant: the smoothing state written for every face.
SmoothEveryFace(f_smooth, ctx) == TRUE

SmoothChanged(f_smooth, ctx) == f_smooth # ctx

TextOff == <<"o", "f", "f">>

\* The 's' line of lines 637-646.
SmoothLine(me, f_index, f_smooth, ob) ==
    IF f_smooth # 0
    THEN (IF SmoothGroups(me) # <<>>
          THEN Line("s", Decimal(SmoothGroups(me)[f_index + 1]), ob)
          ELSE Line("s", Decimal(1), ob))
    ELSE Line("s", TextOff, ob)

\* Mutant: the local index taken as already 1-based.
GlobalIndexZeroBased(tot, local) == tot + local - 1

GlobalIndex(tot, local) == tot + local

FaceFormat(me) ==
    IF FaceUV(me)
    THEN (IF opt.EXPORT_NORMALS THEN "v/vt/vn" ELSE "v/vt")
    ELSE (IF opt.EXPORT_NORMALS THEN "v//vn" ELSE "v")

\* One corner of the 'f' line.
FaceToken(me, f_index, vi) ==
    LET f  == Poly(me, f_index)
        v  == GlobalIndex(totverts, f.vertices[vi + 1])
        li == f.loop_start + vi
    IN  IF FaceUV(me)
        THEN (IF opt.EXPORT_NORMALS
              THEN <<v, GlobalIndex(totuvco, uv_face_mapping[f_index + 1][vi + 1]),
                        GlobalIndex(totno, loops_to_normals[li + 1])>>
              ELSE <<v, GlobalIndex(totuvco, uv_face_mapping[f_index + 1][vi + 1])>>)
        ELSE (IF opt.EXPORT_NORMALS
              THEN <<v, GlobalIndex(totno, loops_to_normals[li + 1])>>
              ELSE <<v>>)

FaceLine(me, f_index, ob) ==
    Line("f", [fmt    |-> FaceFormat(me),
               tokens |-> [c \in 1..Len(Poly(me, f_index).vertices) |->
                              FaceToken(me, f_index, c - 1)],
               face   |-> f_index], ob)

\* "l %d %d" for every loose edge
RECURSIVE EdgeLines(_, _)
EdgeLines(edges, ob) ==
    IF edges = <<>> THEN <<>>
    ELSE (IF Head(edges).is_loose
          THEN <<Line("l", <<GlobalIndex(totverts, Head(edges).vertices[1]),
                             GlobalIndex(totverts, Head(edges).vertices[2])>>, ob)>>
          ELSE <<>>)
         \o EdgeLines(Tail(edges), ob)

----------------------------------------------------------------------------
(* write_file: the state machine *)

\* contextMat = (0, 0): "Can never be this"
ContextMatInit == <<<<"0">>, <<"0">>>>

\* contextSmooth = None
ContextSmoothInit == -1

HeaderLines ==
    << Line("#", "Blender OBJ File", 0), Line("#", "www.blender.org", 0) >>
    \o (IF opt.EXPORT_MTL THEN <<Line("mtllib", "mtl", 0)>> ELSE <<>>)

\* The state at line 303, once the header is written and the totals are set.
StartWith(scene, Opts) ==
    /\ objects = scene
    /\ opt \in Opts
    /\ pc = "loop"
    /\ obi = 0
    /\ totverts = 1
    /\ totuvco = 1
    /\ totno = 1
    /\ mtl_dict = <<>>
    /\ mtl_rev_dict = <<>>
    /\ face_index_pairs = <<>>
    /\ fpos = 0
    /\ contextMat = ContextMatInit
    /\ contextSmooth = ContextSmoothInit
    /\ uv_unique_count = 0
    /\ no_unique_count = 0
    /\ uv_face_mapping = <<>>
    /\ loops_to_normals = <<>>
    /\ currentVGroup = NoneV
    /\ obj = HeaderLines
    /\ mtl = <<>>

\* The object the loop takes next, and the one being written.
NextOb == objects[obi + 1]
Ob == objects[obi]

AtLoop == pc = "loop" /\ obi < Len(objects)

NurbsRoute(ob) == opt.EXPORT_CURVE_AS_NURBS /\ test_nurbs_compat(ob)

meshVars == <<face_index_pairs, fpos, contextMat, contextSmooth,
              uv_unique_count, no_unique_count, uv_face_mapping,
              loops_to_normals, currentVGroup>>

\* What a skipped or curve object leaves of the mesh state: line 324 has
\* reset the two pool counts.
PoolCountsReset ==
    /\ uv_unique_count' = 0
    /\ no_unique_count' = 0
    /\ UNCHANGED <<face_index_pairs, fpos, contextMat, contextSmooth,
                   uv_face_mapping, loops_to_normals, currentVGroup>>

\* Lines 305-310: a dupli child is ignored.
IgnoreDupliChild ==
    /\ AtLoop
    /\ NextOb.dupli_child
    /\ obi' = obi + 1
    /\ UNCHANGED <<objects, opt, pc, totverts, totuvco, totno, mtl_dict,
                   mtl_rev_dict, meshVars, obj, mtl>>

\* Lines 326-330: the curve goes to write_nurb.
WriteNurbObject ==
    /\ AtLoop
    /\ ~NextOb.dupli_child
    /\ NurbsRoute(NextOb)
    /\ LET r == write_nurb(NextOb.splines, obi + 1, NextOb.name)
       IN  /\ obj' = obj \o r.lines
           /\ totverts' = totverts + r.tot_verts
    /\ obi' = obi + 1
    /\ PoolCountsReset
    /\ UNCHANGED <<objects, opt, pc, totuvco, totno, mtl_dict, mtl_rev_dict,
                   mtl>>

MeshRoute(ob) == ~ob.dupli_child /\ ~NurbsRoute(ob)

\* Mutant: the object line written before the conversion is tried.
SkipFailedMeshAfterObjectLine ==
    /\ AtLoop
    /\ MeshRoute(NextOb)
    /\ ~NextOb.converts
    /\ obi' = obi + 1
    /\ PoolCountsReset
    /\ obj' = obj \o <<Line("o", name_compat(NextOb.name), obi + 1)>>
    /\ UNCHANGED <<objects, opt, pc, totverts, totuvco, totno, mtl_dict,
                   mtl_rev_dict, mtl>>

\* Lines 339-345: to_mesh() raised or returned None.
SkipFailedMesh ==
    /\ AtLoop
    /\ MeshRoute(NextOb)
    /\ ~NextOb.converts
    /\ obi' = obi + 1
    /\ PoolCountsReset
    /\ UNCHANGED <<objects, opt, pc, totverts, totuvco, totno, mtl_dict,
                   mtl_rev_dict, obj, mtl>>

\* Lines 376-381: nothing to write.
SkipEmptyMesh ==
    /\ AtLoop
    /\ MeshRoute(NextOb)
    /\ NextOb.converts
    /\ NothingToWrite(NextOb.me)
    /\ obi' = obi + 1
    /\ PoolCountsReset
    /\ UNCHANGED <<objects, opt, pc, totverts, totuvco, totno, mtl_dict,
                   mtl_rev_dict, obj, mtl>>

ObjectLine(ob, i) ==
    IF opt.EXPORT_BLEN_OBS THEN <<Line("o", ObNameString(ob), i)>>
    ELSE IF opt.EXPORT_GROUP_BY_OB THEN <<Line("g", ObNameString(ob), i)>>
    ELSE <<>>

VertLines(me, i) == [v \in 1..me.nverts |-> Line("v", v - 1, i)]

\* Lines 364-466: sort the faces, reset the contexts, write 'o' and the 'v's.
BeginMesh ==
    /\ AtLoop
    /\ MeshRoute(NextOb)
    /\ NextOb.converts
    /\ ~NothingToWrite(NextOb.me)
    /\ obi' = obi + 1
    /\ pc' = "uv"
    /\ face_index_pairs' = FaceIndexPairs(NextOb.me)
    /\ fpos' = 0
    /\ contextMat' = ContextMatInit
    /\ contextSmooth' = ContextSmoothInit
    /\ uv_unique_count' = 0
    /\ no_unique_count' = 0
    /\ obj' = obj \o ObjectLine(NextOb, obi + 1) \o VertLines(NextOb.me, obi + 1)
    /\ UNCHANGED <<objects, opt, totverts, totuvco, totno, mtl_dict,
                   mtl_rev_dict, uv_face_mapping, loops_to_normals,
                   currentVGroup, mtl>>

\* Lines 470-495.
WriteUVs ==
    /\ pc = "uv"
    /\ pc' = "normals"
    /\ IF FaceUV(Ob.me)
       THEN LET st == UvPass(Ob.me, LoopRefs(Ob.me, face_index_pairs), obi,
                        [dict    |-> <<>>,
                         count   |-> uv_unique_count,
                         lines   |-> <<>>,
                         mapping |-> [i \in 1..Len(Ob.me.polygons) |-> <<>>]])
            IN  /\ obj' = obj \o st.lines
                /\ uv_unique_count' = st.count
                /\ uv_face_mapping' = st.mapping
       ELSE UNCHANGED <<obj, uv_unique_count, uv_face_mapping>>
    /\ UNCHANGED <<objects, opt, obi, totverts, totuvco, totno, mtl_dict,
                   mtl_rev_dict, face_index_pairs, fpos, contextMat,
                   contextSmooth, no_unique_count, loops_to_normals,
                   currentVGroup, mtl>>

\* Lines 534-546: the object is written in vertex-group mode.
PolyGroups(ob) == opt.EXPORT_POLYGROUPS /\ ob.vertex_groups # <<>>

\* Lines 511-546.
WriteNormals ==
    /\ pc = "normals"
    /\ pc' = "faces"
    /\ IF opt.EXPORT_NORMALS
       THEN LET st == NormalPass(Ob.me, LoopRefs(Ob.me, face_index_pairs), obi,
                        [dict    |-> <<>>,
                         count   |-> no_unique_count,
                         lines   |-> <<>>,
                         mapping |-> [i \in 1..Len(Ob.me.loops) |-> 0]])
            IN  /\ obj' = obj \o st.lines
                /\ no_unique_count' = st.count
                /\ loops_to_normals' = st.mapping
       ELSE /\ loops_to_normals' = <<>>
            /\ UNCHANGED <<obj, no_unique_count>>
    /\ currentVGroup' = IF PolyGroups(Ob) THEN <<>> ELSE currentVGroup
    /\ UNCHANGED <<objects, opt, obi, totverts, totuvco, totno, mtl_dict,
                   mtl_rev_dict, face_index_pairs, fpos, contextMat,
                   contextSmooth, uv_unique_count, uv_face_mapping, mtl>>

TextNull == <<"(", "n", "u", "l", "l", ")">>

ObDataName(ob) == name_compat(ob.name) \o <<"_">> \o name_compat(ob.data_name)

\* Lines 573-585: the lines of a switch to the null material.
NullMaterialLines(ob, i) ==
    (IF opt.EXPORT_GROUP_BY_MAT THEN <<Line("g", ObDataName(ob), i)>> ELSE <<>>)
    \o (IF opt.EXPORT_MTL THEN <<Line("usemtl", TextNull, i)>> ELSE <<>>)

\* Lines 621-634: the lines of a switch to the material named mtl_name.
MaterialLines(ob, i, mtl_name) ==
    (IF opt.EXPORT_GROUP_BY_MAT
     THEN <<Line("g", ObDataName(ob) \o <<"_">> \o mtl_name, i)>> ELSE <<>>)
    \o (IF opt.EXPORT_MTL THEN <<Line("usemtl", mtl_name, i)>> ELSE <<>>)

\* The name under which key is (or is now) registered, lines 588-619.
ResolvedName(dict, rev, key) ==
    IF HasKey(dict, key) THEN DictGet(dict, key).name
    ELSE NewMtlName(rev, key)

\* vgroupsMap, lines 541-546: for every vertex its (group name, weight)
\* pairs.
vgroupsMap(ob) ==
    [v \in 1..Len(ob.vertex_weights) |->
        [g \in 1..Len(ob.vertex_weights[v]) |->
            [name   |-> ob.vertex_groups[ob.vertex_weights[v][g].group + 1],
             weight |-> ob.vertex_weights[v][g].weight]]]

\* weightDict, lines 254-258: the (name, weight) pairs met over the face's
\* vertices, and the weight summed for a name.
FaceWeights(face, vWeightMap) ==
    Flatten([i \in 1..Len(face.vertices) |-> vWeightMap[face.vertices[i] + 1]])

SummedWeight(pairs, name) ==
    SumSeq([i \in 1..Len(pairs) |->
               IF pairs[i].name = name THEN pairs[i].weight ELSE 0])

\* Mutant: the group shared by the greatest number of the face's vertices.
findVertexGroupNameByCount(face, vWeightMap) ==
    LET pairs == FaceWeights(face, vWeightMap)
        names == {pairs[i].name : i \in 1..Len(pairs)}
        n(x)  == Cardinality({i \in 1..Len(pairs) : pairs[i].name = x})
    IN  IF names = {} THEN <<"(", "n", "u", "l", "l", ")">>
        ELSE CHOOSE x \in names :
                \A y \in names \ {x} : n(y) < n(x) \/ (n(y) = n(x) /\ StrLess(y, x))

\* Lines 245-265: max((weight, vGroupName) ...)[1], or "(null)".
findVertexGroupName(face, vWeightMap) ==
    LET pairs == FaceWeights(face, vWeightMap)
        names == {pairs[i].name : i \in 1..Len(pairs)}
        w(x)  == SummedWeight(pairs, x)
    IN  IF names = {} THEN <<"(", "n", "u", "l", "l", ")">>
        ELSE CHOOSE x \in names :
                \A y \in names \ {x} : w(y) < w(x) \/ (w(y) = w(x) /\ StrLess(y, x))

\* Mutant: the material written for every face.
ContextSwitchEveryFace(key, ctx) == TRUE

\* Lines 570-572: 'if key == contextMat: pass / else:'.
ContextSwitch(key, ctx) == key # ctx

\* Lines 548-693: one iteration of the face loop.
WriteFace ==
    /\ pc = "faces"
    /\ fpos < Len(face_index_pairs)
    /\ LET me       == Ob.me
           f_index  == face_index_pairs[fpos + 1]
           f_smooth == f_smooth_of(me, f_index)
           key      == MakeKey(me, f_index)
           switch   == ContextSwitch(key, contextMat)
           resolve  == switch /\ ~IsNullKey(key)
           name     == ResolvedName(mtl_dict, mtl_rev_dict, key)
           matLines == IF ~switch THEN <<>>
                       ELSE IF IsNullKey(key) THEN NullMaterialLines(Ob, obi)
                       ELSE MaterialLines(Ob, obi, name)
           sLines   == IF SmoothChanged(f_smooth, contextSmooth)
                       THEN <<SmoothLine(me, f_index, f_smooth, obi)>>
                       ELSE <<>>
           vgroup   == IF PolyGroups(Ob)
                       THEN findVertexGroupName(Poly(me, f_index),
                                                vgroupsMap(Ob))
                       ELSE currentVGroup
           gLines   == IF vgroup # currentVGroup
                       THEN <<Line("g", vgroup, obi)>> ELSE <<>>
       IN  /\ currentVGroup' = vgroup
           /\ IF resolve /\ ~HasKey(mtl_dict, key)
              THEN /\ mtl_dict' = Append(mtl_dict,
                          [key  |-> key,
                           name |-> name,
                           mat  |-> Materials(me)[f_mat_of(me, f_index) + 1]])
                   /\ mtl_rev_dict' = Put(mtl_rev_dict, name, key)
              ELSE UNCHANGED <<mtl_dict, mtl_rev_dict>>
           /\ contextMat' = key
           /\ contextSmooth' = IF SmoothChanged(f_smooth, contextSmooth)
                               THEN f_smooth ELSE contextSmooth
           /\ obj' = obj \o gLines \o matLines \o sLines
                          \o <<FaceLine(me, f_index, obi)>>
    /\ fpos' = fpos + 1
    /\ UNCHANGED <<objects, opt, pc, obi, totverts, totuvco, totno,
                   face_index_pairs, uv_unique_count, no_unique_count,
                   uv_face_mapping, loops_to_normals, mtl>>

\* Mutant: the vertex counter advanced by the number of faces.
FinishMeshCountsFaces ==
    /\ pc = "faces"
    /\ fpos = Len(face_index_pairs)
    /\ pc' = "loop"
    /\ obj' = obj \o EdgeLines(Edges(Ob.me), obi)
    /\ totverts' = totverts + Len(face_index_pairs)
    /\ totuvco' = totuvco + uv_unique_count
    /\ totno' = totno + no_unique_count
    /\ UNCHANGED <<objects, opt, obi, mtl_dict, mtl_rev_dict, meshVars, mtl>>

\* Lines 697-715: the loose edges, then "make the indices global".
FinishMesh ==
    /\ pc = "faces"
    /\ fpos = Len(face_index_pairs)
    /\ pc' = "loop"
    /\ obj' = obj \o EdgeLines(Edges(Ob.me), obi)
    /\ totverts' = totverts + Ob.me.nverts
    /\ totuvco' = totuvco + uv_unique_count
    /\ totno' = totno + no_unique_count
    /\ UNCHANGED <<objects, opt, obi, mtl_dict, mtl_rev_dict, meshVars, mtl>>

----------------------------------------------------------------------------
(* write_mtl *)

\* key=lambda m: m[0]
MtlSortKey(m) == m.name

\* Mutant: no sorting, the dict's own (insertion) order kept.
MtlInsertionOrder(a, b) == FALSE

\* a sorts before b
MtlBefore(a, b) == StrLess(MtlSortKey(a), MtlSortKey(b))

RECURSIVE InsertMtl(_, _)
InsertMtl(sorted, m) ==
    IF sorted = <<>> THEN <<m>>
    ELSE IF MtlBefore(m, Head(sorted)) THEN <<m>> \o sorted
    ELSE <<Head(sorted)>> \o InsertMtl(Tail(sorted), m)

\* mtl_dict_values.sort(key=lambda m: m[0]): a stable sort
RECURSIVE SortMtl(_)
SortMtl(values) ==
    IF values = <<>> THEN <<>>
    ELSE InsertMtl(SortMtl(SubSeq(values, 1, Len(values) - 1)),
                   values[Len(values)])

\* The block of one entry: 'newmtl', and 'map_Kd' for a textured material.
MtlBlock(m) ==
    <<Line("newmtl", m.name, 0)>>
    \o (IF m.mat # NoMat /\ m.mat.image # NoneV
        THEN <<Line("map_Kd", m.mat.image, 0)>> ELSE <<>>)

write_mtl(dict) ==
    << Line("#", "Blender MTL File", 0), Line("# Material Count", Len(dict), 0) >>
    \o Flatten([i \in 1..Len(dict) |-> MtlBlock(SortMtl(dict)[i])])

\* Lines 724-726.
WriteMtl ==
    /\ pc = "loop"
    /\ obi = Len(objects)
    /\ pc' = "done"
    /\ mtl' = IF opt.EXPORT_MTL THEN write_mtl(mtl_dict) ELSE mtl
    /\ UNCHANGED <<objects, opt, obi, totverts, totuvco, totno, mtl_dict,
                   mtl_rev_dict, meshVars, obj>>

Next ==
    \/ IgnoreDupliChild
    \/ WriteNurbObject
    \/ SkipFailedMesh
    \/ SkipEmptyMesh
    \/ BeginMesh
    \/ WriteUVs
    \/ WriteNormals
    \/ WriteFace
    \/ FinishMesh
    \/ WriteMtl

----------------------------------------------------------------------------
(* The inputs: snapshots of what write_file reads from Blender *)

\* A polygon given by its corners [v, uv, no], with its loops laid out the
\* way Blender does: the loops of a polygon are consecutive, in corner order.
MkMesh(nverts, faces, has_uv, edges, materials, groups, groups_tot) ==
    [nverts   |-> nverts,
     polygons |-> [i \in 1..Len(faces) |->
                     [vertices       |-> [c \in 1..Len(faces[i].corners) |->
                                             faces[i].corners[c].v],
                      loop_start     |-> SumSeq([j \in 1..(i - 1) |->
                                             Len(faces[j].corners)]),
                      material_index |-> faces[i].mat,
                      use_smooth     |-> faces[i].smooth]],
     loops    |-> Flatten([i \in 1..Len(faces) |->
                     [c \in 1..Len(faces[i].corners) |->
                        [vertex_index |-> faces[i].corners[c].v,
                         uv           |-> faces[i].corners[c].uv,
                         normal       |-> faces[i].corners[c].no]]]),
     has_uv   |-> has_uv,
     edges    |-> edges,
     materials |-> materials,
     smooth_groups     |-> groups,
     smooth_groups_tot |-> groups_tot]

Corner(v, uv, no) == [v |-> v, uv |-> uv, no |-> no]

Face(corners, mat, smooth) == [corners |-> corners, mat |-> mat, smooth |-> smooth]

NoGeometry == MkMesh(0, <<>>, FALSE, <<>>, <<>>, <<>>, 0)

MeshOb(name, data_name, me) ==
    [type |-> "MESH", name |-> name, data_name |-> data_name,
     dupli_child |-> FALSE, splines |-> <<>>, converts |-> TRUE, me |-> me,
     vertex_groups |-> <<>>, vertex_weights |-> <<>>]

\* An object whose to_mesh() raises RuntimeError or returns None.
FailingOb(name) ==
    [type |-> "MESH", name |-> name, data_name |-> name,
     dupli_child |-> FALSE, splines |-> <<>>, converts |-> FALSE,
     me |-> NoGeometry, vertex_groups |-> <<>>, vertex_weights |-> <<>>]

\* A child of a VERTS/FACES instancer.
DupliChildOb(name, me) ==
    [type |-> "MESH", name |-> name, data_name |-> name,
     dupli_child |-> TRUE, splines |-> <<>>, converts |-> TRUE, me |-> me,
     vertex_groups |-> <<>>, vertex_weights |-> <<>>]

\* A mesh object with vertex groups: the group names, and for every vertex
\* its [group, weight] memberships (me_verts[v].groups).
GroupedOb(name, me, groups, weights) ==
    [type |-> "MESH", name |-> name, data_name |-> name,
     dupli_child |-> FALSE, splines |-> <<>>, converts |-> TRUE, me |-> me,
     vertex_groups |-> groups, vertex_weights |-> weights]

\* A curve object; 'me' is what to_mesh() gives when it takes the mesh path.
CurveOb(name, splines, me) ==
    [type |-> "CURVE", name |-> name, data_name |-> name,
     dupli_child |-> FALSE, splines |-> splines, converts |-> TRUE, me |-> me,
     vertex_groups |-> <<>>, vertex_weights |-> <<>>]

Spline(type, point_count_v, order_u, npoints, cyclic, endpoint) ==
    [type |-> type, point_count_v |-> point_count_v, order_u |-> order_u,
     npoints |-> npoints, use_cyclic_u |-> cyclic, use_endpoint_u |-> endpoint]

Mat(name) == [name |-> name, image |-> NoneV]

TexturedMat(name, image) == [name |-> name, image |-> image]

\* The default arguments of write_file (lines 211-227).
DefaultOpt ==
    [EXPORT_EDGES |-> FALSE, EXPORT_SMOOTH_GROUPS |-> FALSE,
     EXPORT_SMOOTH_GROUPS_BITFLAGS |-> FALSE, EXPORT_NORMALS |-> FALSE,
     EXPORT_UV |-> TRUE, EXPORT_MTL |-> TRUE, EXPORT_BLEN_OBS |-> TRUE,
     EXPORT_GROUP_BY_OB |-> FALSE, EXPORT_GROUP_BY_MAT |-> FALSE,
     EXPORT_KEEP_VERT_ORDER |-> FALSE, EXPORT_POLYGROUPS |-> FALSE,
     EXPORT_CURVE_AS_NURBS |-> TRUE]

----------------------------------------------------------------------------
(* Bounds and input values *)

MaxObjects == 2
MaxFaces == 3

NameA == <<"a">>
NameB == <<"b">>
NameM == <<"M">>
NameN == <<"N">>

\* UV coordinates in units of 10^-5: UvA and UvA2 round to the same key.
UvA  == <<0, 0>>
UvA2 == <<4, 0>>
UvB  == <<6, 0>>
UvC  == <<0, 100000>>

\* Normals: NoZ and NoZ2 round to the same key.
NoZ  == <<0, 0, 100000>>
NoZ2 == <<0, 4, 100000>>
NoX  == <<100000, 0, 0>>

Edge(a, b, loose) == [vertices |-> <<a, b>>, is_loose |-> loose]

TriMesh ==
    MkMesh(3, <<Face(<<Corner(0, UvA, NoZ), Corner(1, UvB, NoZ),
                       Corner(2, UvC, NoZ2)>>, 0, FALSE)>>,
           TRUE, <<Edge(0, 1, FALSE)>>, <<Mat(NameM)>>, <<1>>, 1)

QuadMesh ==
    MkMesh(5, <<Face(<<Corner(0, UvA, NoZ), Corner(1, UvB, NoX),
                       Corner(2, UvC, NoZ)>>, 1, TRUE),
                Face(<<Corner(0, UvA2, NoZ2), Corner(2, UvC, NoX),
                       Corner(3, UvC, NoX)>>, 0, FALSE)>>,
           TRUE, <<Edge(0, 1, FALSE), Edge(3, 4, TRUE)>>,
           <<Mat(NameM), Mat(NameN)>>, <<1, 2>>, 2)

WireMesh ==
    MkMesh(2, <<>>, FALSE, <<Edge(0, 1, TRUE)>>, <<>>, <<>>, 0)

PlainTriMesh ==
    MkMesh(3, <<Face(<<Corner(2, UvA, NoX), Corner(1, UvA, NoX),
                       Corner(0, UvA, NoX)>>, 0, TRUE)>>,
           FALSE, <<>>, <<>>, <<1>>, 1)

\* The objects the scenes of several objects are made of.
ObjectCatalogue ==
    { MeshOb(NameA, NameA, TriMesh),
      MeshOb(NameA, NameB, QuadMesh),
      MeshOb(NameB, NameB, WireMesh),
      MeshOb(NameB, NameB, NoGeometry),
      FailingOb(NameA),
      DupliChildOb(NameA, TriMesh),
      CurveOb(NameA, <<Spline("POLY", 1, 2, 3, TRUE, FALSE),
                       Spline("BEZIER", 1, 4, 4, FALSE, FALSE),
                       Spline("NURBS", 1, 3, 4, FALSE, TRUE)>>, NoGeometry),
      CurveOb(NameB, <<Spline("BEZIER", 1, 4, 4, FALSE, FALSE)>>, PlainTriMesh) }

ObjectOpts ==
    {[DefaultOpt EXCEPT !.EXPORT_UV = uv, !.EXPORT_NORMALS = no,
                        !.EXPORT_EDGES = ed, !.EXPORT_CURVE_AS_NURBS = cu] :
        uv \in BOOLEAN, no \in BOOLEAN, ed \in BOOLEAN, cu \in BOOLEAN}

\* Scenes of up to MaxObjects objects of the catalogue.
InitObjects ==
    \E n \in 0..MaxObjects : \E scene \in [1..n -> ObjectCatalogue] :
        StartWith(scene, ObjectOpts)

\* One mesh of up to MaxFaces triangles over the same three vertices, each
\* with its own material index and smooth flag.
ContextFaces ==
    {Face(<<Corner(0, UvA, NoZ), Corner(1, UvB, NoZ), Corner(2, UvC, NoZ)>>,
          m, sm) : m \in 0..1, sm \in BOOLEAN}

SlotChoices ==
    { <<>>, <<NoMat>>, <<Mat(NameM)>>, <<Mat(NameM), NoMat>>,
      <<Mat(NameM), Mat(NameN)>> }

\* calc_smooth_groups: the polygons alternate between two groups.
AlternatingGroups(n) == [i \in 1..n |-> IF i % 2 = 1 THEN 1 ELSE 2]

ContextMesh(fs, slots) ==
    MkMesh(3, fs, FALSE, <<>>, slots, AlternatingGroups(Len(fs)),
           Min(Len(fs), 2))

ContextOpts ==
    {[DefaultOpt EXCEPT !.EXPORT_KEEP_VERT_ORDER = ko,
                        !.EXPORT_SMOOTH_GROUPS = sg, !.EXPORT_MTL = ml,
                        !.EXPORT_GROUP_BY_MAT = ~ml,
                        !.EXPORT_BLEN_OBS = ml,
                        !.EXPORT_GROUP_BY_OB = sg] :
        ko \in BOOLEAN, sg \in BOOLEAN, ml \in BOOLEAN}

InitContexts ==
    \E n \in 1..MaxFaces : \E fs \in [1..n -> ContextFaces] :
        \E slots \in SlotChoices :
            StartWith(<<MeshOb(NameA, NameA, ContextMesh(fs, slots))>>,
                      ContextOpts)

\* One scene per object of the catalogue, under the default options.
InitBase == \E o \in ObjectCatalogue : StartWith(<<o>>, {DefaultOpt})

Init == InitObjects \/ InitContexts

Spec == Init /\ [][Next]_vars

----------------------------------------------------------------------------
(* Scenes for the attribute pools: a fan of triangles (0, k, k+1) whose     *)
(* smooth flags alternate, so that the face sort changes the visiting order *)

MaxFanFaces == 2

UvChoices == {UvA, UvA2, UvB}

NormalChoices == {NoZ, NoZ2, NoX}

FanMesh(n, uvs, nos) ==
    MkMesh(n + 2,
           [k \in 1..n |->
               Face(<<Corner(0, uvs[3 * k - 2], nos[3 * k - 2]),
                      Corner(k, uvs[3 * k - 1], nos[3 * k - 1]),
                      Corner(k + 1, uvs[3 * k], nos[3 * k])>>,
                    0, k % 2 = 1)],
           TRUE, <<>>, <<Mat(NameM)>>, [k \in 1..n |-> 1], 1)

PoolOpts ==
    {[DefaultOpt EXCEPT !.EXPORT_NORMALS = TRUE, !.EXPORT_KEEP_VERT_ORDER = ko] :
        ko \in BOOLEAN}

InitUvFans ==
    \E n \in 1..MaxFanFaces : \E uvs \in [1..(3 * n) -> UvChoices] :
        StartWith(<<MeshOb(NameA, NameA,
                           FanMesh(n, uvs, [i \in 1..(3 * n) |-> NoZ]))>>,
                  PoolOpts)

InitNormalFans ==
    \E n \in 1..MaxFanFaces : \E nos \in [1..(3 * n) -> NormalChoices] :
        StartWith(<<MeshOb(NameA, NameA,
                           FanMesh(n, [i \in 1..(3 * n) |-> UvA], nos))>>,
                  PoolOpts)

InitPools == InitBase \/ InitUvFans \/ InitNormalFans

SpecPools == InitPools /\ [][Next]_vars

----------------------------------------------------------------------------
(* Scenes for the material registry: material names that collide once       *)
(* spaces are replaced, and one that collides with a suffixed name          *)

MaxSlots == 4

NameABC1 == <<"a", " ", "b", " ", "c">>
NameABC2 == <<"a", "_", "b", " ", "c">>
NameABC3 == <<"a", " ", "b", "_", "c">>
NameABC4 == <<"a", "_", "b", "_", "c">>
NameABCNone == <<"a", "_", "b", "_", "c", "_", "N", "O", "N", "E">>

SlotValues ==
    { NoMat, Mat(NameM), Mat(NameABC1), Mat(NameABC2), Mat(NameABC3),
      Mat(NameABC4), Mat(NameABCNone) }

PlainFace(m) ==
    Face(<<Corner(0, UvA, NoZ), Corner(1, UvA, NoZ), Corner(2, UvA, NoZ)>>,
         m, FALSE)

\* A mesh with one face per material slot (one face when it has no slot).
SlotMesh(slots) ==
    MkMesh(3, [i \in 1..(IF slots = <<>> THEN 1 ELSE Len(slots)) |->
                  PlainFace(i - 1)],
           FALSE, <<>>, slots, <<>>, 0)

InitSlots ==
    \E n \in 0..MaxSlots : \E slots \in [1..n -> SlotValues] :
        StartWith(<<MeshOb(NameA, NameA, SlotMesh(slots))>>, {DefaultOpt})

\* Several objects of one slot each: the registry outlives the object.
InitSlotObjects ==
    \E n \in 0..MaxObjects : \E sl \in [1..n -> SlotValues] :
        StartWith([i \in 1..n |-> MeshOb(NameA, NameA, SlotMesh(<<sl[i]>>))],
                  {DefaultOpt})

InitMaterials == InitBase \/ InitSlots \/ InitSlotObjects

SpecMaterials == InitMaterials /\ [][Next]_vars

----------------------------------------------------------------------------
(* Scenes for the curves *)

MaxPoints == 5
MaxOrder == 4

Splines ==
    {Spline(ty, pcv, order, n, cyc, endp) :
        ty \in {"POLY", "NURBS", "BEZIER"}, pcv \in 1..2,
        order \in 2..MaxOrder, n \in 1..MaxPoints,
        cyc \in BOOLEAN, endp \in BOOLEAN}

SplinePairs ==
    {<<a, b>> :
        a \in {Spline("POLY", 1, 2, 4, TRUE, FALSE),
               Spline("NURBS", 2, 3, 4, FALSE, FALSE),
               Spline("NURBS", 1, 4, 3, TRUE, TRUE)},
        b \in {Spline("NURBS", 1, 3, 4, TRUE, FALSE),
               Spline("BEZIER", 1, 3, 4, TRUE, FALSE),
               Spline("POLY", 1, 4, 2, FALSE, TRUE)}}

InitSplines ==
    \E nu \in Splines : StartWith(<<CurveOb(NameA, <<nu>>, NoGeometry)>>,
                                  {DefaultOpt})

InitSplinePairs ==
    \E pair \in SplinePairs :
        StartWith(<<CurveOb(NameA, pair, NoGeometry)>>, {DefaultOpt})

\* Curves whose to_mesh() gives a triangle, exported with and without
\* EXPORT_CURVE_AS_NURBS.
InitCurveMeshes ==
    \E pair \in SplinePairs :
        StartWith(<<CurveOb(NameA, pair, PlainTriMesh)>>,
                  {[DefaultOpt EXCEPT !.EXPORT_CURVE_AS_NURBS = cu] :
                      cu \in BOOLEAN})

InitCurves == InitBase \/ InitSplines \/ InitSplinePairs \/ InitCurveMeshes

SpecCurves == InitCurves /\ [][Next]_vars

----------------------------------------------------------------------------
(* Reading the written file back *)

\* Number of lines of kind t among the first k - 1 lines.
CountBefore(k, t) == Cardinality({j \in 1..(k - 1) : obj[j].t = t})

\* Number of lines of kind t written for object ob among 'lines'.
LinesOf(lines, ob, t) ==
    Cardinality({j \in 1..Len(lines) : lines[j].ob = ob /\ lines[j].t = t})

\* Number of lines of kind t among 'lines'.
KindCount(lines, t) == Cardinality({j \in 1..Len(lines) : lines[j].t = t})

\* The first line written for object ob.
FirstLineOf(ob) ==
    CHOOSE k \in 1..Len(obj) :
        obj[k].ob = ob /\ \A j \in 1..(k - 1) : obj[j].ob # ob

\* What OBJ index n of kind t ("v", "vt", "vn") denotes: the n-th such line.
Denoted(t, n) ==
    obj[CHOOSE k \in 1..Len(obj) : obj[k].t = t /\ CountBefore(k, t) = n - 1]

\* 1 + the number of lines of kind t written before object ob's block.
BlockBase(ob, t) == 1 + CountBefore(FirstLineOf(ob), t)

HasVt(fmt) == fmt \in {"v/vt", "v/vt/vn"}
HasVn(fmt) == fmt \in {"v//vn", "v/vt/vn"}

\* The vn index within a face token.
VnOf(fmt, tok) == IF fmt = "v/vt/vn" THEN tok[3] ELSE tok[2]

\* 4-decimal quantisation stated on its own: the multiple of 10^-4 nearest
\* to x (x in units of 10^-5).
Nearest4(x) ==
    CHOOSE m \in {10 * q : q \in ((x \div 10) - 1)..((x \div 10) + 1)} :
        \A q \in ((x \div 10) - 1)..((x \div 10) + 1) :
            (IF x >= m THEN x - m ELSE m - x)
                <= (IF x >= 10 * q THEN x - 10 * q ELSE 10 * q - x)

Quantised(v) == [i \in 1..Len(v) |-> Nearest4(v[i])]

----------------------------------------------------------------------------
(* C1 *)

\* An index of kind t, written on line k for object ob, that must denote
\* local element 'local' of that object: it is base + local, it is at least
\* 1, and its line is already written and belongs to ob.
GoodIndex(k, ob, t, n, local) ==
    /\ n = BlockBase(ob, t) + local
    /\ n >= 1
    /\ n <= CountBefore(k, t)
    /\ Denoted(t, n).ob = ob

FaceLineIndicesGood(k) ==
    LET ln == obj[k]
        me == objects[ln.ob].me
        f  == Poly(me, ln.x.face)
    IN  /\ Len(ln.x.tokens) = Len(f.vertices)
        /\ \A c \in 1..Len(f.vertices) :
             LET tok  == ln.x.tokens[c]
                 loop == me.loops[f.loop_start + c]
             IN  /\ GoodIndex(k, ln.ob, "v", tok[1], f.vertices[c])
                 /\ Denoted("v", tok[1]).x = f.vertices[c]
                 /\ HasVt(ln.x.fmt) =>
                      /\ GoodIndex(k, ln.ob, "vt", tok[2],
                                   tok[2] - BlockBase(ln.ob, "vt"))
                      /\ tok[2] - BlockBase(ln.ob, "vt") >= 0
                      /\ ln.ob = obi =>
                           tok[2] = BlockBase(ln.ob, "vt")
                                      + uv_face_mapping[ln.x.face + 1][c]
                      /\ Quantised(Denoted("vt", tok[2]).x) = Quantised(loop.uv)
                 /\ HasVn(ln.x.fmt) =>
                      /\ GoodIndex(k, ln.ob, "vn", VnOf(ln.x.fmt, tok),
                                   VnOf(ln.x.fmt, tok) - BlockBase(ln.ob, "vn"))
                      /\ VnOf(ln.x.fmt, tok) - BlockBase(ln.ob, "vn") >= 0
                      /\ ln.ob = obi =>
                           VnOf(ln.x.fmt, tok) = BlockBase(ln.ob, "vn")
                                      + loops_to_normals[f.loop_start + c]
                      /\ Denoted("vn", VnOf(ln.x.fmt, tok)).x
                            = Quantised(loop.normal)

EdgeLineIndicesGood(k) ==
    LET ln == obj[k]
        me == objects[ln.ob].me
    IN  \E e \in 1..Len(me.edges) :
           /\ me.edges[e].is_loose
           /\ \A i \in 1..2 :
                GoodIndex(k, ln.ob, "v", ln.x[i], me.edges[e].vertices[i])

\* C1: every index written on an 'f' or 'l' line of a mesh object is 1-based
\* and points into that object's own block: vertex index = (1 + number of
\* 'v' lines written before the object) + local vertex index, and the vt/vn
\* indices are (1 + number of vt/vn lines written before the object) + the
\* local pool index (uv_face_mapping / loops_to_normals of the object being
\* written), where the pool entry denoted carries that corner's quantised
\* UV / normal; no index is 0 or exceeds the number of lines of
\* its kind written before the line that uses it.
C1_IndicesPointIntoOwnBlock ==
    \A k \in 1..Len(obj) :
        /\ obj[k].t = "f" => FaceLineIndicesGood(k)
        /\ obj[k].t = "l" => EdgeLineIndicesGood(k)

\* A second object's face, written with all three indices after a first
\* object that already put v, vt and vn lines in the file, and a loose edge.
C1_Witness ==
    /\ \E k \in 1..Len(obj) :
          /\ obj[k].t = "f"
          /\ obj[k].ob = 2
          /\ obj[k].x.fmt = "v/vt/vn"
          /\ BlockBase(2, "v") > 1
          /\ BlockBase(2, "vt") > 1
          /\ BlockBase(2, "vn") > 1
    /\ \E k \in 1..Len(obj) : obj[k].t = "l" /\ obj[k].ob = 2

----------------------------------------------------------------------------
(* C2 *)

\* C2: a step that completes a mesh object advances the global vertex
\* counter by exactly the mesh's vertex count, which is the number of 'v'
\* lines written for it; the steps inside a mesh object leave the counter
\* alone, and no step decreases it.
C2_VertexCounterAdvance ==
    [][ /\ totverts' >= totverts
        /\ (pc = "faces" /\ pc' = "loop") =>
             /\ totverts' = totverts + objects[obi].me.nverts
             /\ LinesOf(obj', obi, "v") = objects[obi].me.nverts
        /\ (pc # "loop" /\ pc' # "loop") => totverts' = totverts
        /\ (pc' = "loop" \/ pc' = "done") =>
             totverts' = 1 + KindCount(obj', "v") ]_vars

\* A second mesh object with vertices has been completed.
C2_Witness ==
    /\ pc = "loop"
    /\ obi = 2
    /\ objects[1].type = "MESH" /\ objects[1].converts /\ objects[1].me.nverts = 3
    /\ objects[2].type = "MESH" /\ objects[2].converts /\ objects[2].me.nverts = 5
    /\ totverts = 9

----------------------------------------------------------------------------
(* C3, C4 *)

\* The loops of the mesh being written, in the order the faces are visited.
VisitedLoops == LoopRefs(Ob.me, face_index_pairs)

LoopOf(r) == Ob.me.loops[r.l_index + 1]

\* The corner (1-based) of its face that a visited loop is.
CornerOf(r) == r.l_index - Poly(Ob.me, r.f_index).loop_start + 1

\* The key the UV pool is meant to share on: (vertex index, quantised UV).
UvKeyOf(r) == <<LoopOf(r).vertex_index, Quantised(LoopOf(r).uv)>>

\* The local UV index the pass gave to a visited loop.
UvIndexOf(r) == uv_face_mapping[r.f_index + 1][CornerOf(r)]

\* The number of distinct keys met before the first visit of keys[i].
RankOfFirstVisit(keys, i) ==
    LET first == CHOOSE j \in 1..i :
                    keys[j] = keys[i] /\ \A h \in 1..(j - 1) : keys[h] # keys[i]
    IN  Cardinality({keys[h] : h \in 1..(first - 1)})

UvPoolDone == pc \in {"normals", "faces"} /\ FaceUV(Ob.me)

\* C3: once the UV pass of a mesh is done, two corners have the same local
\* UV index exactly when their keys (vertex index, UV rounded to 4
\* decimals) are equal; one 'vt' line is written per distinct key; and the
\* local indices are 0, 1, 2, ... in the order in which the keys are first
\* met along the face visiting order.
C3_UvDedup ==
    UvPoolDone =>
        LET refs == VisitedLoops
            keys == <<>> \o [i \in 1..Len(refs) |-> UvKeyOf(refs[i])]
            idxs == <<>> \o [i \in 1..Len(refs) |-> UvIndexOf(refs[i])]
        IN  /\ \A i, j \in 1..Len(refs) :
                 (keys[i] = keys[j]) <=> (idxs[i] = idxs[j])
            /\ \A i \in 1..Len(refs) : idxs[i] = RankOfFirstVisit(keys, i)
            /\ LinesOf(obj, obi, "vt") = Cardinality(Range(keys))
            /\ uv_unique_count = LinesOf(obj, obi, "vt")

\* A mesh whose faces are visited out of polygon order, with two corners of
\* one vertex sharing an index although their raw UVs differ, and two
\* corners of different vertices with the same quantised UV kept apart.
C3_Witness ==
    /\ UvPoolDone
    /\ face_index_pairs # [i \in 1..Len(face_index_pairs) |-> i - 1]
    /\ \E i, j \in 1..Len(VisitedLoops) :
          /\ UvKeyOf(VisitedLoops[i]) = UvKeyOf(VisitedLoops[j])
          /\ LoopOf(VisitedLoops[i]).uv # LoopOf(VisitedLoops[j]).uv
          /\ UvIndexOf(VisitedLoops[i]) = UvIndexOf(VisitedLoops[j])
    /\ \E i, j \in 1..Len(VisitedLoops) :
          /\ LoopOf(VisitedLoops[i]).vertex_index
                # LoopOf(VisitedLoops[j]).vertex_index
          /\ Quantised(LoopOf(VisitedLoops[i]).uv)
                = Quantised(LoopOf(VisitedLoops[j]).uv)
          /\ UvIndexOf(VisitedLoops[i]) # UvIndexOf(VisitedLoops[j])

\* The key the normal pool is meant to share on: the quantised normal alone.
NormalKeyOf(r) == Quantised(LoopOf(r).normal)

NormalIndexOf(r) == loops_to_normals[r.l_index + 1]

NormalPoolDone == pc = "faces" /\ opt.EXPORT_NORMALS

NormalPoolShared ==
    NormalPoolDone =>
        LET refs == VisitedLoops
            keys == <<>> \o [i \in 1..Len(refs) |-> NormalKeyOf(refs[i])]
            idxs == <<>> \o [i \in 1..Len(refs) |-> NormalIndexOf(refs[i])]
        IN  /\ \A i, j \in 1..Len(refs) :
                 (keys[i] = keys[j]) <=> (idxs[i] = idxs[j])
            /\ no_unique_count = LinesOf(obj, obi, "vn")
            /\ no_unique_count = Cardinality(Range(keys))

\* C4: once the normal pass of a mesh is done, two loops have the same local
\* normal index exactly when their normals rounded to 4 decimals are equal,
\* whatever their vertices and faces; and the global normal counter, which
\* during the object still counts the 'vn' lines of the objects before it,
\* counts after it those lines plus the 'vn' lines written for the object.
C4_NormalDedup ==
    /\ NormalPoolShared
    /\ pc = "faces" =>
          totno = 1 + KindCount(obj, "vn") - LinesOf(obj, obi, "vn")
    /\ pc \in {"loop", "done"} => totno = 1 + KindCount(obj, "vn")

\* Loops of two different vertices in two different faces share a normal
\* index although their raw normals differ, and the object is complete.
C4_Witness ==
    /\ pc = "loop"
    /\ obi = 1
    /\ opt.EXPORT_NORMALS
    /\ LinesOf(obj, 1, "vn") = 2
    /\ totno = 3
    /\ \E i, j \in 1..Len(VisitedLoops) :
          /\ VisitedLoops[i].f_index # VisitedLoops[j].f_index
          /\ LoopOf(VisitedLoops[i]).vertex_index
                # LoopOf(VisitedLoops[j]).vertex_index
          /\ LoopOf(VisitedLoops[i]).normal # LoopOf(VisitedLoops[j]).normal
          /\ NormalIndexOf(VisitedLoops[i]) = NormalIndexOf(VisitedLoops[j])

----------------------------------------------------------------------------
(* C5 *)

\* The lines a step appends to the .obj file.
NewLines == SubSeq(obj', Len(obj) + 1, Len(obj'))

\* The texts of the lines of kind t, in order.
RECURSIVE TextsOf(_, _)
TextsOf(lines, t) ==
    IF lines = <<>> THEN <<>>
    ELSE (IF Head(lines).t = t THEN <<Head(lines).x>> ELSE <<>>)
         \o TextsOf(Tail(lines), t)

\* A face-loop step, and the face it writes.
FaceStep == pc = "faces" /\ fpos' = fpos + 1
StepFace == face_index_pairs[fpos + 1]

NullKey == <<NoneV, NoneV>>

NoTwoKeysShareAName(dict) ==
    \A i, j \in 1..Len(dict) :
        i # j => dict[i].name # dict[j].name /\ dict[i].key # dict[j].key

\* C5: over any sequence of resolve operations of a run, resolving a
\* registered key gives the name issued the first time and changes nothing;
\* two different keys never hold the same name, even when their base names
\* collide; and a name issued to a key is never given to another key.
C5_ResolverNamesStable ==
    [][ /\ NoTwoKeysShareAName(mtl_dict')
        /\ Len(mtl_dict') >= Len(mtl_dict)
        /\ \A i \in 1..Len(mtl_dict) : mtl_dict'[i] = mtl_dict[i]
        /\ \A n \in DOMAIN mtl_rev_dict :
              n \in DOMAIN mtl_rev_dict' /\ mtl_rev_dict'[n] = mtl_rev_dict[n]
        /\ \A i \in 1..Len(mtl_dict') :
              /\ mtl_dict'[i].name \in DOMAIN mtl_rev_dict'
              /\ mtl_rev_dict'[mtl_dict'[i].name] = mtl_dict'[i].key
        /\ FaceStep =>
              LET key == MakeKey(Ob.me, StepFace)
              IN  /\ HasKey(mtl_dict, key) =>
                        mtl_dict' = mtl_dict /\ mtl_rev_dict' = mtl_rev_dict
                  /\ \A n \in Range(TextsOf(NewLines, "usemtl")) :
                        n # TextNull =>
                           /\ HasKey(mtl_dict', key)
                           /\ n = DictGet(mtl_dict', key).name ]_vars

\* Three keys with one base name are registered, one of them under a
\* counter suffix, and a registered key has been resolved a second time.
C5_Witness ==
    /\ \E i, j, k \in 1..Len(mtl_dict) :
          /\ i < j /\ j < k
          /\ name_compat(mtl_dict[i].key[1]) = name_compat(mtl_dict[j].key[1])
          /\ name_compat(mtl_dict[j].key[1]) = name_compat(mtl_dict[k].key[1])
          /\ " " \in Range(mtl_dict[k].name)
    /\ \E a, b \in 1..Len(obj) :
          /\ a < b
          /\ obj[a].t = "usemtl" /\ obj[b].t = "usemtl"
          /\ obj[a].x = obj[b].x
          /\ \E i \in 1..Len(mtl_dict) : mtl_dict[i].name = obj[a].x

----------------------------------------------------------------------------
(* C6 *)

\* The face's slot exists and is empty.
EmptySlotFace(me, f_index) ==
    /\ me.materials # <<>>
    /\ me.materials[Min(Poly(me, f_index).material_index,
                        Len(me.materials) - 1) + 1] = NoMat

NoSlotMesh(me) == me.materials = <<>>

\* What a step writing a face of the null material does.
NullMaterialStep ==
    /\ contextMat' = NullKey
    /\ mtl_dict' = mtl_dict
    /\ mtl_rev_dict' = mtl_rev_dict
    /\ TextsOf(NewLines, "usemtl")
         = IF contextMat # NullKey /\ opt.EXPORT_MTL THEN <<TextNull>> ELSE <<>>

\* C6 as stated: a face of a mesh with no real material (no slots at all,
\* or the face's slot empty) has key (None, None), switches with
\* 'usemtl (null)' and creates no registry entry.
C6_Original ==
    [][ FaceStep /\ (NoSlotMesh(Ob.me) \/ EmptySlotFace(Ob.me, StepFace))
          => NullMaterialStep ]_vars

\* C6 amended: a face whose slot is empty, in a mesh that has slots, has key
\* (None, None), switches with 'usemtl (null)' (MTL enabled) and creates no
\* registry entry, and the key (None, None) is never registered; a face of
\* a mesh with no slots at all has key ("None", None), is registered under
\* the name None and switches with 'usemtl None'.
C6_EmptySlotIsNull ==
    [][ /\ \A i \in 1..Len(mtl_dict') : mtl_dict'[i].key # NullKey
        /\ FaceStep /\ EmptySlotFace(Ob.me, StepFace) => NullMaterialStep
        /\ FaceStep /\ NoSlotMesh(Ob.me) =>
              /\ contextMat' = <<TextNone, NoneV>>
              /\ HasKey(mtl_dict', <<TextNone, NoneV>>)
              /\ DictGet(mtl_dict', <<TextNone, NoneV>>).name = TextNone
              /\ TextsOf(NewLines, "usemtl")
                   = IF contextMat # <<TextNone, NoneV>> /\ opt.EXPORT_MTL
                     THEN <<TextNone>> ELSE <<>> ]_vars

\* A mesh with a real material and an empty slot: both a 'usemtl (null)' and
\* a 'usemtl M' are written, and only M is registered.
C6_Witness ==
    /\ Len(objects) = 1
    /\ objects[1].me.materials = <<Mat(NameM), NoMat>>
    /\ TextNull \in Range(TextsOf(obj, "usemtl"))
    /\ NameM \in Range(TextsOf(obj, "usemtl"))
    /\ Len(mtl_dict) = 1

----------------------------------------------------------------------------
(* C7 *)

SmoothGroupsDisabled ==
    ~opt.EXPORT_SMOOTH_GROUPS /\ ~opt.EXPORT_SMOOTH_GROUPS_BITFLAGS

IsFaceLine(k) == obj[k].t = "f"

\* The face line of the same object written before face line k (0: none).
PrevFaceLine(k) ==
    LET before == {j \in 1..(k - 1) : IsFaceLine(j) /\ obj[j].ob = obj[k].ob}
    IN  IF before = {} THEN 0
        ELSE CHOOSE j \in before : \A h \in before : h <= j

\* The 's' lines of face line k's object between lines j and k.
SLinesBetween(j, k) ==
    {i \in (j + 1)..(k - 1) : obj[i].t = "s" /\ obj[i].ob = obj[k].ob}

SmoothFlagOf(k) == Poly(objects[obj[k].ob].me, obj[k].x.face).use_smooth

\* C7: with smoothing groups disabled, exactly one 's' line ('s 1' for a
\* smooth face, 's off' for a flat one) stands between a face and the face
\* written before it in the same object when their smooth flags differ, and
\* before the first face of an object; none stands between two faces with
\* equal flags; and every 's' line is followed by a face of its object.
C7_SmoothToggle ==
    SmoothGroupsDisabled =>
        /\ \A k \in 1..Len(obj) :
             IsFaceLine(k) =>
                LET p == PrevFaceLine(k)
                    between == SLinesBetween(p, k)
                IN  IF p = 0 \/ SmoothFlagOf(p) # SmoothFlagOf(k)
                    THEN /\ Cardinality(between) = 1
                         /\ \A i \in between :
                              obj[i].x = IF SmoothFlagOf(k) THEN <<"1">>
                                         ELSE TextOff
                    ELSE between = {}
        /\ \A i \in 1..Len(obj) :
             obj[i].t = "s" =>
                \E k \in (i + 1)..Len(obj) :
                    IsFaceLine(k) /\ obj[k].ob = obj[i].ob

\* Three faces written in polygon order: the flag changes between the first
\* two and stays between the last two.
C7_Witness ==
    /\ SmoothGroupsDisabled
    /\ opt.EXPORT_KEEP_VERT_ORDER
    /\ \E k1, k2, k3 \in 1..Len(obj) :
          /\ IsFaceLine(k1) /\ IsFaceLine(k2) /\ IsFaceLine(k3)
          /\ PrevFaceLine(k2) = k1 /\ PrevFaceLine(k3) = k2
          /\ SmoothFlagOf(k1) /\ ~SmoothFlagOf(k2) /\ ~SmoothFlagOf(k3)
          /\ Cardinality(SLinesBetween(k1, k2)) = 1
          /\ SLinesBetween(k2, k3) = {}

----------------------------------------------------------------------------
(* C8 *)

\* The spline a 'curv' line was written for.
SplineOfLine(k) == objects[obj[k].ob].splines[obj[k].x.nu]

\* C8: the 'curv' line of a closed spline of n points and degree d (n > d)
\* lists the n base indices -1 .. -n followed by the first d of them again
\* (d = 1 for a POLY spline), n + d tokens, and its parameter vector is
\* built for n + d points, (d + 1) + (n + d) values; the 'curv' line of an
\* open spline lists exactly the n base indices; a closed POLY spline of 4
\* points gives -1 -2 -3 -4 -1.
C8_ClosedSplineEncoding ==
    \A k \in 1..Len(obj) :
        obj[k].t = "curv" =>
            LET nu   == SplineOfLine(k)
                n    == nu.npoints
                d    == IF nu.type = "POLY" THEN 1 ELSE nu.order_u - 1
                toks == obj[k].x.tokens
                parm == obj[k + 1]
            IN  /\ n > d
                /\ obj[k - 1].t = "deg" /\ obj[k - 1].x = d
                /\ parm.t = "parm" /\ parm.x.nu = obj[k].x.nu
                /\ \A i \in 1..n : toks[i] = -i
                /\ IF nu.use_cyclic_u
                   THEN /\ Len(toks) = n + d
                        /\ \A i \in 1..d : toks[n + i] = toks[i]
                        /\ Len(parm.x.values) = (d + 1) + (n + d)
                   ELSE /\ Len(toks) = n
                        /\ Len(parm.x.values) = (d + 1) + n
                /\ (nu.type = "POLY" /\ nu.use_cyclic_u /\ n = 4) =>
                       toks = <<-1, -2, -3, -4, -1>>

\* One curve with a closed POLY spline of 4 points and a closed NURBS spline
\* of degree 2, both written.
C8_Witness ==
    /\ \E k \in 1..Len(obj) :
          /\ obj[k].t = "curv"
          /\ SplineOfLine(k).type = "POLY"
          /\ SplineOfLine(k).use_cyclic_u
          /\ obj[k].x.tokens = <<-1, -2, -3, -4, -1>>
    /\ \E k \in 1..Len(obj) :
          /\ obj[k].t = "curv"
          /\ SplineOfLine(k).type = "NURBS"
          /\ SplineOfLine(k).use_cyclic_u
          /\ SplineOfLine(k).order_u = 3
          /\ Len(obj[k].x.tokens) = SplineOfLine(k).npoints + 2

----------------------------------------------------------------------------
(* C9 *)

\* One mesh object of 3 vertices and one face (0, 1, 2), without UVs,
\* exported without normals and with the MTL file.
SingleTriangleScene ==
    /\ Len(objects) = 1
    /\ objects[1].type = "MESH"
    /\ objects[1].converts /\ ~objects[1].dupli_child
    /\ objects[1].me.nverts = 3
    /\ Len(objects[1].me.polygons) = 1
    /\ objects[1].me.polygons[1].vertices = <<0, 1, 2>>
    /\ ~FaceUV(objects[1].me)
    /\ ~opt.EXPORT_NORMALS
    /\ opt.EXPORT_MTL

SingleTriangleSlots == objects[1].me.materials

\* The two files of the finished export of the single triangle.
TriangleFiles(usemtl, newmtls) ==
    /\ KindCount(obj, "v") = 3
    /\ TextsOf(obj, "usemtl") = <<usemtl>>
    /\ KindCount(obj, "f") = 1
    /\ \A k \in 1..Len(obj) :
          obj[k].t = "f" => /\ obj[k].x.fmt = "v"
                            /\ obj[k].x.tokens = << <<1>>, <<2>>, <<3>> >>
    /\ TextsOf(mtl, "newmtl") = newmtls

\* C9 as stated: with one material "M" the single triangle gives 3 'v'
\* lines, one 'usemtl M', one 'f 1 2 3' and one 'newmtl M' block; with no
\* material (no slot, or an empty slot) the directive is 'usemtl (null)'.
C9_Original ==
    (pc = "done" /\ SingleTriangleScene) =>
        /\ SingleTriangleSlots = <<Mat(NameM)>> =>
              TriangleFiles(NameM, <<NameM>>)
        /\ SingleTriangleSlots \in {<<>>, <<NoMat>>} =>
              TextsOf(obj, "usemtl") = <<TextNull>>

\* C9 amended: with one material "M" the single triangle gives 3 'v' lines,
\* one 'usemtl M', one 'f 1 2 3' and one 'newmtl M' block; with one empty
\* slot the directive is 'usemtl (null)' and the MTL file has no block; with
\* no slot at all the directive is 'usemtl None' and the MTL file has one
\* 'newmtl None' block.
C9_SingleTriangle ==
    (pc = "done" /\ SingleTriangleScene) =>
        /\ SingleTriangleSlots = <<Mat(NameM)>> =>
              TriangleFiles(NameM, <<NameM>>)
        /\ SingleTriangleSlots = <<NoMat>> => TriangleFiles(TextNull, <<>>)
        /\ SingleTriangleSlots = <<>> => TriangleFiles(TextNone, <<TextNone>>)

\* The single triangle with material "M" has been exported.
C9_Witness ==
    /\ pc = "done"
    /\ SingleTriangleScene
    /\ SingleTriangleSlots = <<Mat(NameM)>>
    /\ NameM \in Range(TextsOf(obj, "usemtl"))
    /\ mtl # <<>>

----------------------------------------------------------------------------
(* C10 *)

\* Text a comes before text b in code-point order.
NameBefore(a, b) ==
    \E k \in 1..(Len(a) + 1) :
        /\ \A h \in 1..(k - 1) : h <= Len(b) /\ a[h] = b[h]
        /\ \/ k = Len(a) + 1 /\ Len(b) >= k
           \/ k <= Len(a) /\ k <= Len(b) /\ Ord(a[k]) < Ord(b[k])

RegisteredNames == [i \in 1..Len(mtl_dict) |-> mtl_dict[i].name]

MtlWritten == pc = "done" /\ opt.EXPORT_MTL

\* C10 as stated: the 'newmtl' blocks are in the order in which their keys
\* were first inserted into the registry.
C10_Original ==
    MtlWritten => TextsOf(mtl, "newmtl") = RegisteredNames

\* C10 amended: the MTL file has one 'newmtl' block per registered key, and
\* the blocks are in ascending order of the resolved names, whatever the
\* order of registration.
C10_BlocksSortedByName ==
    MtlWritten =>
        LET names == TextsOf(mtl, "newmtl")
        IN  /\ Len(names) = Len(mtl_dict)
            /\ Range(names) = Range(RegisteredNames)
            /\ \A i, j \in 1..Len(names) :
                  i < j => NameBefore(names[i], names[j])

\* Three materials registered in an order that is not the order of their
\* names, and the MTL file written.
C10_Witness ==
    /\ MtlWritten
    /\ Len(mtl_dict) >= 3
    /\ TextsOf(mtl, "newmtl") # RegisteredNames
    /\ Len(TextsOf(mtl, "newmtl")) = Len(mtl_dict)

----------------------------------------------------------------------------
(* Vertex groups: meshes of four vertices whose faces lie in groups a and b *)

MaxGroupFaces == 3

In(g, w) == [group |-> g, weight |-> w]

\* Group names of an object, and the memberships of its four vertices.
GroupNames == <<NameA, NameB>>

WeightMaps ==
    { << <<In(0, 3)>>, <<In(1, 1)>>, <<In(1, 1)>>, <<>> >>,
      << <<In(0, 1)>>, <<In(1, 1)>>, <<>>, <<In(0, 1), In(1, 1)>> >>,
      << <<>>, <<>>, <<>>, <<In(1, 3), In(0, 1)>> >> }

GroupFaces ==
    {Face(<<Corner(vs[1], UvA, NoZ), Corner(vs[2], UvA, NoZ),
            Corner(vs[3], UvA, NoZ)>>, m, sm) :
        vs \in {<<0, 1, 2>>, <<1, 2, 3>>}, m \in 0..1, sm \in BOOLEAN}

GroupMesh(fs) ==
    MkMesh(4, fs, FALSE, <<>>, <<Mat(NameM), Mat(NameN)>>, <<>>, 0)

GroupOpts ==
    {[DefaultOpt EXCEPT !.EXPORT_POLYGROUPS = TRUE,
                        !.EXPORT_KEEP_VERT_ORDER = ko] : ko \in BOOLEAN}

\* One mesh with vertex groups.
InitGroups ==
    \E n \in 1..MaxGroupFaces : \E fs \in [1..n -> GroupFaces] :
        \E w \in WeightMaps :
            StartWith(<<GroupedOb(NameA, GroupMesh(fs), GroupNames, w)>>,
                      GroupOpts)

\* Two meshes of one face each, with or without vertex groups.
InitGroupObjects ==
    \E f1, f2 \in GroupFaces : \E w \in WeightMaps :
        \E g1, g2 \in {<<>>, GroupNames} :
            StartWith(<<GroupedOb(NameA, GroupMesh(<<f1>>), g1,
                                  IF g1 = <<>> THEN <<>> ELSE w),
                        GroupedOb(NameB, GroupMesh(<<f2>>), g2,
                                  IF g2 = <<>> THEN <<>> ELSE w)>>,
                      GroupOpts)

InitVertexGroups == InitBase \/ InitGroups \/ InitGroupObjects

SpecGroups == InitVertexGroups /\ [][Next]_vars

----------------------------------------------------------------------------
(* Scenes for the face order: a fan of triangles (0, k, k+1), each with its *)
(* own material index, smooth flag, UV and normal, written with UVs and     *)
(* normals, with and without EXPORT_KEEP_VERT_ORDER                         *)

MaxKeptFaces == 2

\* The UV and the normal that the three corners of a face carry.
KeptAttrs == { <<UvA, NoZ>>, <<UvA2, NoZ2>>, <<UvB, NoX>> }

KeptFaces ==
    {[mat |-> m, smooth |-> sm, attr |-> a] :
        m \in 0..1, sm \in BOOLEAN, a \in KeptAttrs}

KeptMesh(fs) ==
    MkMesh(Len(fs) + 2,
           [k \in 1..Len(fs) |->
               Face(<<Corner(0, fs[k].attr[1], fs[k].attr[2]),
                      Corner(k, fs[k].attr[1], fs[k].attr[2]),
                      Corner(k + 1, fs[k].attr[1], fs[k].attr[2])>>,
                    fs[k].mat, fs[k].smooth)],
           TRUE, <<>>, <<Mat(NameM), Mat(NameN)>>,
           [k \in 1..Len(fs) |-> 1], 1)

KeptOpts ==
    {[DefaultOpt EXCEPT !.EXPORT_NORMALS = TRUE, !.EXPORT_MTL = TRUE,
                        !.EXPORT_KEEP_VERT_ORDER = ko] : ko \in BOOLEAN}

InitKeptMeshes ==
    \E n \in 1..MaxKeptFaces : \E fs \in [1..n -> KeptFaces] :
        StartWith(<<MeshOb(NameA, NameA, KeptMesh(fs))>>, KeptOpts)

\* Two objects over the same two faces, in either order.
InitKeptObjects ==
    \E f1 \in KeptFaces : \E f2 \in KeptFaces :
        StartWith(<<MeshOb(NameA, NameA, KeptMesh(<<f1, f2>>)),
                    MeshOb(NameB, NameB, KeptMesh(<<f2, f1>>))>>, KeptOpts)

InitKeptOrder == InitBase \/ InitKeptMeshes \/ InitKeptObjects

SpecKeptOrder == InitKeptOrder /\ [][Next]_vars

----------------------------------------------------------------------------
(* Scenes for the consistency of the two files: those of the material       *)
(* registry, and meshes that have a material whose name is the text of the  *)
(* null material                                                            *)

NullNamedSlots == { NoMat, Mat(TextNull), Mat(NameM) }

InitNullNamed ==
    \E n \in 1..MaxSlots : \E slots \in [1..n -> NullNamedSlots] :
        StartWith(<<MeshOb(NameA, NameA, SlotMesh(slots))>>, {DefaultOpt})

InitNullNamedObjects ==
    \E n \in 1..MaxObjects : \E sl \in [1..n -> NullNamedSlots] :
        StartWith([i \in 1..n |-> MeshOb(NameA, NameA, SlotMesh(<<sl[i]>>))],
                  {DefaultOpt})

InitFiles == InitMaterials \/ InitNullNamed \/ InitNullNamedObjects

SpecFiles == InitFiles /\ [][Next]_vars

----------------------------------------------------------------------------
(* C11 *)

\* The loop takes a curve object whose mesh conversion gives geometry.
CurveStep ==
    /\ AtLoop
    /\ obi' = obi + 1
    /\ NextOb.type = "CURVE"
    /\ ~NextOb.dupli_child
    /\ NextOb.converts
    /\ NextOb.me.nverts > 0

\* The object went to write_nurb: the loop is back at its head and the
\* object got no 'o' line; on the mesh path the UV pass comes next.
EncoderTook == pc' = "loop" /\ KindCount(NewLines, "o") = 0

MeshPathTook == pc' = "uv" /\ KindCount(NewLines, "o") = 1

SingleRowNonBezier(nu) == nu.point_count_v = 1 /\ nu.type # "BEZIER"

\* C11 as stated: a curve object goes to the curve encoder only if every one
\* of its splines is a POLY spline or a non-bezier single-row spline.
C11_Original ==
    [][ (CurveStep /\ EncoderTook) =>
           \A i \in 1..Len(NextOb.splines) :
               \/ NextOb.splines[i].type = "POLY"
               \/ SingleRowNonBezier(NextOb.splines[i]) ]_vars

\* C11 amended: a curve object goes to the curve encoder exactly when
\* EXPORT_CURVE_AS_NURBS is set and at least one of its splines is a
\* single-row spline that is not bezier, and takes the mesh path otherwise;
\* in the encoder a bezier or multi-row spline of such an object is skipped
\* on its own, one 'curv' line being written per spline that is not skipped.
C11_AnySplineQualifies ==
    [][ CurveStep =>
          LET some == \E i \in 1..Len(NextOb.splines) :
                          SingleRowNonBezier(NextOb.splines[i])
              kept == {i \in 1..Len(NextOb.splines) :
                          /\ SingleRowNonBezier(NextOb.splines[i])
                          /\ NextOb.splines[i].npoints
                               > (IF NextOb.splines[i].type = "POLY" THEN 1
                                  ELSE NextOb.splines[i].order_u - 1)}
          IN  IF opt.EXPORT_CURVE_AS_NURBS /\ some
              THEN /\ EncoderTook
                   /\ KindCount(NewLines, "curv") = Cardinality(kept)
              ELSE /\ MeshPathTook
                   /\ KindCount(NewLines, "curv") = 0 ]_vars

\* A curve with a POLY spline and a bezier spline, whose mesh would be a
\* triangle, has been written by the curve encoder.
C11_Witness ==
    /\ pc = "loop"
    /\ obi = 1
    /\ objects[1].type = "CURVE"
    /\ objects[1].me.nverts = 3
    /\ \E i \in 1..Len(objects[1].splines) : objects[1].splines[i].type = "BEZIER"
    /\ KindCount(obj, "curv") = 1
    /\ KindCount(obj, "o") = 0

----------------------------------------------------------------------------
(* C12 *)

\* The loop takes an object whose to_mesh() raises or gives no mesh.
FailedConversionStep ==
    /\ AtLoop
    /\ obi' = obi + 1
    /\ ~NextOb.dupli_child
    /\ ~(opt.EXPORT_CURVE_AS_NURBS /\ NextOb.type = "CURVE")
    /\ ~NextOb.converts

\* C12: an object whose mesh conversion fails is skipped entirely: the step
\* that takes it writes no line, leaves the three global counters and the
\* material registry as they were, and leaves the loop at its head for the
\* next object; at no time does the file hold a line of such an object.
C12_FailedConversionSkipped ==
    [][ /\ FailedConversionStep =>
              /\ obj' = obj
              /\ totverts' = totverts /\ totuvco' = totuvco /\ totno' = totno
              /\ mtl_dict' = mtl_dict /\ mtl_rev_dict' = mtl_rev_dict
              /\ pc' = "loop"
        /\ \A k \in 1..Len(obj') :
              obj'[k].ob >= 1 =>
                 \/ objects[obj'[k].ob].converts
                 \/ objects[obj'[k].ob].type = "CURVE" ]_vars

\* A mesh of three vertices was written, then an object that fails to
\* convert was taken, and the export ended with the counters of the mesh.
C12_Witness ==
    /\ pc = "done"
    /\ Len(objects) = 2
    /\ objects[1].converts /\ objects[1].type = "MESH"
    /\ objects[1].me.nverts = 3 /\ FaceUV(objects[1].me)
    /\ ~objects[2].converts /\ ~objects[2].dupli_child
    /\ totverts = 4
    /\ totuvco > 1
    /\ Len(mtl_dict) = 1
    /\ \A k \in 1..Len(obj) : obj[k].ob # 2

----------------------------------------------------------------------------
(* C13 *)

\* The loop takes a curve object that goes to the curve encoder.
EncoderStep ==
    /\ AtLoop
    /\ obi' = obi + 1
    /\ NextOb.type = "CURVE"
    /\ ~NextOb.dupli_child
    /\ opt.EXPORT_CURVE_AS_NURBS
    /\ \E i \in 1..Len(NextOb.splines) : SingleRowNonBezier(NextOb.splines[i])

\* The degree of a spline, and whether the encoder skips it.
DegreeOf(nu) == IF nu.type = "POLY" THEN 1 ELSE nu.order_u - 1

SplineIsSkipped(nu) ==
    nu.type = "BEZIER" \/ nu.point_count_v > 1 \/ nu.npoints <= DegreeOf(nu)

\* C13: the step that encodes a curve object advances the global vertex
\* counter by the number of 'v' lines it writes, which is the sum of the
\* control-point counts of the splines that are not skipped; a skipped
\* spline writes no line, each written spline writes its points and its
\* six directive lines, the wrap-around indices of a closed spline are not
\* counted, and the UV and normal counters are unchanged.
C13_EncoderCountsWrittenPoints ==
    [][ EncoderStep =>
          LET nus  == NextOb.splines
              kept == {i \in 1..Len(nus) : ~SplineIsSkipped(nus[i])}
              pts  == SumSeq([i \in 1..Len(nus) |->
                                 IF i \in kept THEN nus[i].npoints ELSE 0])
          IN  /\ totverts' - totverts = KindCount(NewLines, "v")
              /\ KindCount(NewLines, "v") = pts
              /\ Len(NewLines) = pts + 6 * Cardinality(kept)
              /\ \A k \in 1..Len(NewLines) :
                    NewLines[k].t \in {"curv", "parm"} => NewLines[k].x.nu \in kept
              /\ KindCount(NewLines, "curv") = Cardinality(kept)
              /\ totuvco' = totuvco
              /\ totno' = totno
              /\ pc' = "loop" ]_vars

\* A curve of two splines, a closed one that was written with its
\* wrap-around indices and one that was skipped, has been encoded.
C13_Witness ==
    /\ pc = "loop"
    /\ obi = 1
    /\ objects[1].type = "CURVE"
    /\ Len(objects[1].splines) = 2
    /\ \E i \in 1..2 : SplineIsSkipped(objects[1].splines[i])
    /\ \E k \in 1..Len(obj) :
          /\ obj[k].t = "curv"
          /\ SplineOfLine(k).use_cyclic_u
          /\ Len(obj[k].x.tokens) > SplineOfLine(k).npoints
          /\ totverts = 1 + SplineOfLine(k).npoints
    /\ KindCount(obj, "curv") = 1
    /\ totuvco = 1 /\ totno = 1

----------------------------------------------------------------------------
(* C14 *)

\* The names registered before entry k of the registry; each belongs to a
\* key other than the key of entry k.
NamesBefore(k) == {mtl_dict[j].name : j \in 1..(k - 1)}

\* The name the stated scheme gives entry k: the base name if no other key
\* holds it, else base_NONE, else base_NONE_n for the first n = 0, 1, 2, ...
\* that no other key holds.
StatedName(k) ==
    LET base   == name_compat(mtl_dict[k].key[1])
        ext    == IF mtl_dict[k].key[2] = NoneV THEN <<"_", "N", "O", "N", "E">>
                  ELSE <<"_">> \o name_compat(mtl_dict[k].key[2])
        taken  == NamesBefore(k)
        try(n) == base \o ext \o <<"_">> \o Decimal(n)
        first  == CHOOSE n \in 0..k :
                     /\ try(n) \notin taken
                     /\ \A m \in 0..(n - 1) : try(m) \in taken
    IN  IF base \notin taken THEN base
        ELSE IF (base \o ext) \notin taken THEN base \o ext
        ELSE try(first)

ThreeWide(n) ==
    IF n < 10 THEN <<" ", " ">> \o Decimal(n)
    ELSE IF n < 100 THEN <<" ">> \o Decimal(n)
    ELSE Decimal(n)

\* The name of entry k when the counter takes the place of the first suffix:
\* base, else base_NONE, else base_ followed by n in three columns for the
\* first n = 1, 2, ... that no other key holds.
CounterName(k) ==
    LET base   == name_compat(mtl_dict[k].key[1])
        ext    == IF mtl_dict[k].key[2] = NoneV THEN <<"_", "N", "O", "N", "E">>
                  ELSE <<"_">> \o name_compat(mtl_dict[k].key[2])
        taken  == NamesBefore(k)
        try(n) == base \o <<"_">> \o ThreeWide(n)
        first  == CHOOSE n \in 1..k :
                     /\ try(n) \notin taken
                     /\ \A m \in 1..(n - 1) : try(m) \in taken
    IN  IF base \notin taken THEN base
        ELSE IF (base \o ext) \notin taken THEN base \o ext
        ELSE try(first)

----------------------------------------------------------------------------
(* C15 *)

\* The line the relative index -r written on line k refers to: the r-th
\* most recent 'v' line before line k (0 when there is none).
RelativeTarget(k, r) ==
    LET hits == {j \in 1..(k - 1) :
                    /\ obj[j].t = "v"
                    /\ Cardinality({h \in j..(k - 1) : obj[h].t = "v"}) = r}
    IN  IF hits = {} THEN 0 ELSE CHOOSE j \in hits : TRUE

\* C15: on the 'curv' line of a spline of n control points every index is
\* one of -1 .. -n, and control point i (0-based, in the order the 'v'
\* lines were written) is referenced by the index -(n - i): that index is on
\* the line and, as a relative index, refers to the 'v' line written for
\* point i of this spline; so -1 refers to the point written last and -n to
\* the point written first.
C15_NegativeRelativeIndices ==
    \A k \in 1..Len(obj) :
        obj[k].t = "curv" =>
            LET n    == SplineOfLine(k).npoints
                toks == obj[k].x.tokens
            IN  /\ \A j \in 1..Len(toks) : toks[j] \in {-r : r \in 1..n}
                /\ \A i \in 0..(n - 1) :
                      LET t == RelativeTarget(k, n - i)
                      IN  /\ -(n - i) \in {toks[j] : j \in 1..n}
                          /\ t >= k - 3 - n
                          /\ obj[t].t = "v"
                          /\ obj[t].ob = obj[k].ob
                          /\ obj[t].x = i
                /\ obj[RelativeTarget(k, 1)].x = n - 1
                /\ obj[RelativeTarget(k, n)].x = 0

\* The second spline of a curve has been written after a first one: its
\* indices must not reach the first spline's points.
C15_Witness ==
    \E k \in 1..Len(obj) :
        /\ obj[k].t = "curv"
        /\ obj[k].x.nu = 2
        /\ SplineOfLine(k).npoints >= 3
        /\ \E h \in 1..(k - 1) : obj[h].t = "curv" /\ obj[h].ob = obj[k].ob
        /\ -1 \in Range(obj[k].x.tokens)
        /\ RelativeTarget(k, SplineOfLine(k).npoints) > 0

----------------------------------------------------------------------------
(* C16 *)

\* One, in the unit of the values of a 'parm' line (six decimals).
ParmOne == 1000000

\* v is i / m written with six decimals.
IsFraction6(v, i, m) ==
    LET diff == v * m - i * ParmOne
    IN  2 * diff <= m /\ -2 * diff <= m

\* C16: the 'parm u' vector of a written spline of degree d has
\* (d + 1) + point_count entries, point_count including the wrap-around
\* additions of a closed spline; exactly when the spline is not closed and
\* has the endpoint flag, its first d + 1 entries are 0 and its last d + 1
\* entries are 1, the two ranges not overlapping, the entries between them
\* being i / (length - 1); otherwise every entry i is i / (length - 1); in
\* every case the vector is non-decreasing from 0 to 1.
C16_ParmVector ==
    \A k \in 1..Len(obj) :
        obj[k].t = "parm" =>
            LET nu      == SplineOfLine(k)
                d       == DegreeOf(nu)
                points  == IF nu.use_cyclic_u THEN nu.npoints + d
                           ELSE nu.npoints
                vals    == obj[k].x.values
                L       == Len(vals)
                clamped == ~nu.use_cyclic_u /\ nu.use_endpoint_u
                head    == \A i \in 0..d : vals[i + 1] = 0
                tail    == \A i \in (L - 1 - d)..(L - 1) : vals[i + 1] = ParmOne
            IN  /\ L = (d + 1) + points
                /\ clamped <=> (head /\ tail)
                /\ clamped => d < L - 1 - d
                /\ \A i \in 0..(L - 1) :
                      (~clamped \/ (i > d /\ i < L - 1 - d)) =>
                          IsFraction6(vals[i + 1], i, L - 1)
                /\ vals[1] = 0
                /\ vals[L] = ParmOne
                /\ \A i \in 1..(L - 1) : vals[i] <= vals[i + 1]

\* An open NURBS spline of degree 2 with the endpoint flag has been written
\* with a clamped vector around one uniform entry.
C16_Witness ==
    \E k \in 1..Len(obj) :
        /\ obj[k].t = "parm"
        /\ SplineOfLine(k).type = "NURBS"
        /\ ~SplineOfLine(k).use_cyclic_u
        /\ SplineOfLine(k).use_endpoint_u
        /\ obj[k].x.values = <<0, 0, 0, 500000, ParmOne, ParmOne, ParmOne>>

----------------------------------------------------------------------------
(* C17 *)

\* A mesh is being written.
InMesh == pc \in {"uv", "normals", "faces"}

\* Smoothing groups are in effect for the mesh: asked for, and more than
\* one group computed.
GroupsInEffect(me) ==
    /\ opt.EXPORT_SMOOTH_GROUPS \/ opt.EXPORT_SMOOTH_GROUPS_BITFLAGS
    /\ me.polygons # <<>>
    /\ me.smooth_groups_tot > 1

\* The face's own smoothing key: its smoothing-group id when groups are in
\* effect and it is smooth, 0 (off) when it is flat, else its smooth flag.
SmoothingKey(me, f_index) ==
    LET f == me.polygons[f_index + 1]
    IN  IF ~f.use_smooth THEN 0
        ELSE IF GroupsInEffect(me) THEN me.smooth_groups[f_index + 1]
        ELSE 1

\* (material_index, smoothing_key); the material index plays no part when
\* the mesh has at most one slot.
StatedSortKey(me, f_index) ==
    << IF Len(me.materials) > 1 THEN me.polygons[f_index + 1].material_index
       ELSE 0,
       SmoothingKey(me, f_index) >>

PairLess(a, b) == a[1] < b[1] \/ (a[1] = b[1] /\ a[2] < b[2])

\* C17: when the original order is not kept, the face emission order of a
\* mesh holds every face once, in ascending order of
\* (material_index, smoothing_key), faces of equal keys in their original
\* order; so the faces of one (material index, smoothing state) are
\* contiguous.
C17_StableSortByContext ==
    (InMesh /\ ~opt.EXPORT_KEEP_VERT_ORDER) =>
        LET me  == Ob.me
            fip == face_index_pairs
        IN  /\ Len(fip) = Len(me.polygons)
            /\ Range(fip) = 0..(Len(me.polygons) - 1)
            /\ \A p, q \in 1..Len(fip) :
                  p < q =>
                     /\ ~PairLess(StatedSortKey(me, fip[q]),
                                  StatedSortKey(me, fip[p]))
                     /\ StatedSortKey(me, fip[p]) = StatedSortKey(me, fip[q])
                           => fip[p] < fip[q]

\* A mesh of one material with smoothing groups in effect, whose flat
\* second face is emitted between its two smooth faces of one group.
C17_Witness ==
    /\ pc = "faces"
    /\ ~opt.EXPORT_KEEP_VERT_ORDER
    /\ GroupsInEffect(Ob.me)
    /\ Len(Ob.me.materials) <= 1
    /\ Len(Ob.me.polygons) = 3
    /\ Ob.me.polygons[1].use_smooth
    /\ ~Ob.me.polygons[2].use_smooth
    /\ Ob.me.polygons[3].use_smooth
    /\ Ob.me.smooth_groups[1] = Ob.me.smooth_groups[3]
    /\ face_index_pairs = <<0, 1, 2>>

----------------------------------------------------------------------------
(* C18 *)

\* The material of the face of face line k: the name in its slot (none for
\* an empty slot); every face of a mesh without slots has the same one.
MaterialOfLine(k) ==
    LET me == objects[obj[k].ob].me
        f  == me.polygons[obj[k].x.face + 1]
    IN  IF me.materials = <<>> THEN TextNone
        ELSE me.materials[Min(f.material_index, Len(me.materials) - 1) + 1].name

\* The 'usemtl' lines of face line k's object between lines j and k.
UsemtlBetween(j, k) ==
    {i \in (j + 1)..(k - 1) : obj[i].t = "usemtl" /\ obj[i].ob = obj[k].ob}

\* Face line k starts a run of faces of one material key in its object.
StartsRun(k) ==
    \/ PrevFaceLine(k) = 0
    \/ MaterialOfLine(PrevFaceLine(k)) # MaterialOfLine(k)

\* C18: with MTL output enabled, exactly one 'usemtl' line stands between a
\* face and the face written before it in the same object when their
\* material keys differ, and before the first face of every object, whatever
\* material the object before ended on; none stands between two faces of
\* equal keys; so an object has as many 'usemtl' lines as its face emission
\* order has maximal runs of equal keys.
C18_UsemtlPerRun ==
    opt.EXPORT_MTL =>
        /\ \A k \in 1..Len(obj) :
              IsFaceLine(k) =>
                 Cardinality(UsemtlBetween(PrevFaceLine(k), k))
                    = IF StartsRun(k) THEN 1 ELSE 0
        /\ \A ob \in 1..Len(objects) :
              LinesOf(obj, ob, "usemtl")
                 = Cardinality({k \in 1..Len(obj) :
                       IsFaceLine(k) /\ obj[k].ob = ob /\ StartsRun(k)})

\* The first object ended on material M and the second starts with M and
\* goes on with N: three 'usemtl' lines, M, M, N.
C18_Witness ==
    /\ opt.EXPORT_MTL
    /\ Len(objects) = 2
    /\ LinesOf(obj, 1, "f") = 1
    /\ LinesOf(obj, 2, "f") = 2
    /\ TextsOf(obj, "usemtl") = <<NameM, NameM, NameN>>

----------------------------------------------------------------------------
(* C19 *)

\* The object of line k is written in vertex-group mode.
GroupedLine(k) ==
    opt.EXPORT_POLYGROUPS /\ objects[obj[k].ob].vertex_groups # <<>>

\* The weight of group g (0-based) summed over the vertices of the face of
\* face line k, and whether one of these vertices is in the group.
GroupWeightOfLine(k, g) ==
    LET ob == objects[obj[k].ob]
        vs == ob.me.polygons[obj[k].x.face + 1].vertices
    IN  SumSeq([i \in 1..Len(vs) |->
           SumSeq([m \in 1..Len(ob.vertex_weights[vs[i] + 1]) |->
              IF ob.vertex_weights[vs[i] + 1][m].group = g
              THEN ob.vertex_weights[vs[i] + 1][m].weight ELSE 0])])

GroupTouchesLine(k, g) ==
    LET ob == objects[obj[k].ob]
        vs == ob.me.polygons[obj[k].x.face + 1].vertices
    IN  \E i \in 1..Len(vs) :
           \E m \in 1..Len(ob.vertex_weights[vs[i] + 1]) :
              ob.vertex_weights[vs[i] + 1][m].group = g

GroupsOfLine(k) ==
    {g \in 0..(Len(objects[obj[k].ob].vertex_groups) - 1) : GroupTouchesLine(k, g)}

\* The names a dominant group of the face of line k can have: a group of
\* greatest summed weight, "(null)" when no vertex is in a group.
DominantNames(k) ==
    IF GroupsOfLine(k) = {} THEN {TextNull}
    ELSE {objects[obj[k].ob].vertex_groups[g + 1] :
             g \in {g \in GroupsOfLine(k) :
                       \A h \in GroupsOfLine(k) :
                           GroupWeightOfLine(k, h) <= GroupWeightOfLine(k, g)}}

\* The 'g' lines of face line k's object between lines j and k.
GLinesBetween(j, k) ==
    {i \in (j + 1)..(k - 1) : obj[i].t = "g" /\ obj[i].ob = obj[k].ob}

\* The group in force at face line k: that of the last 'g' line of its
\* object before it.
GroupInForce(k) ==
    LET gs == GLinesBetween(0, k)
    IN  IF gs = {} THEN NoneV
        ELSE obj[CHOOSE i \in gs : \A h \in gs : h <= i].x

\* The summed weights of the face of line k by group name.
WeightsByName(k) ==
    {<<objects[obj[k].ob].vertex_groups[g + 1], GroupWeightOfLine(k, g)>> :
        g \in GroupsOfLine(k)}

----------------------------------------------------------------------------
(* C20 *)

\* The object is written as a mesh (lines 327-381 let it through).
WrittenMesh(ob) == MeshRoute(ob) /\ ob.converts /\ ~NothingToWrite(ob.me)

OriginalOrder(me) == [i \in 1..Len(me.polygons) |-> i - 1]

\* The order that the sort of lines 408-437 gives.
SortedOrder(me) == SortFaces(OriginalOrder(me), me)

\* The number of 'vt' lines and of 'vn' lines that the mesh gets when its
\* faces are visited in the order fip.
UvCountIn(me, fip) ==
    IF FaceUV(me)
    THEN UvPass(me, LoopRefs(me, fip), 0,
                [dict |-> <<>>, count |-> 0, lines |-> <<>>,
                 mapping |-> [i \in 1..Len(me.polygons) |-> <<>>]]).count
    ELSE 0

NoCountIn(me, fip) ==
    IF opt.EXPORT_NORMALS
    THEN NormalPass(me, LoopRefs(me, fip), 0,
                    [dict |-> <<>>, count |-> 0, lines |-> <<>>,
                     mapping |-> [i \in 1..Len(me.loops) |-> 0]]).count
    ELSE 0

\* What the first k objects add to the three global counters when every
\* mesh is written in sorted order.
RECURSIVE SortedTotals(_)
SortedTotals(k) ==
    IF k = 0 THEN <<0, 0, 0>>
    ELSE LET me   == objects[k].me
             rest == SortedTotals(k - 1)
         IN  << rest[1] + me.nverts,
                rest[2] + UvCountIn(me, SortedOrder(me)),
                rest[3] + NoCountIn(me, SortedOrder(me)) >>

\* The polygons of the 'f' lines written for object i, in file order.
FaceOrderOf(i) ==
    LET fl == SelectSeq(obj, LAMBDA l : l.t = "f" /\ l.ob = i)
    IN  [j \in 1..Len(fl) |-> fl[j].x.face]

\* Object i is written to the end.
Completed(i) == i < obi \/ (i = obi /\ pc \in {"loop", "done"})

\* C20: with EXPORT_KEEP_VERT_ORDER the 'f' lines of every mesh stand in
\* the mesh's polygon order 0, 1, 2, ... (all of them once the mesh is
\* complete), whatever the material indices and smooth flags; the mesh has
\* its 'v' lines, one per vertex, and its 'vt' and 'vn' counts, hence the
\* three global counters, are those that the sorted order gives.
C20_KeepVertOrder ==
    (/\ opt.EXPORT_KEEP_VERT_ORDER
     /\ \A i \in 1..Len(objects) : WrittenMesh(objects[i])) =>
        /\ \A i \in 1..obi :
              LET fo == FaceOrderOf(i)
              IN  /\ \A j \in 1..Len(fo) : fo[j] = j - 1
                  /\ Completed(i) =>
                        /\ Len(fo) = Len(objects[i].me.polygons)
                        /\ LinesOf(obj, i, "vt") =
                              UvCountIn(objects[i].me,
                                        SortedOrder(objects[i].me))
                        /\ LinesOf(obj, i, "vn") =
                              NoCountIn(objects[i].me,
                                        SortedOrder(objects[i].me))
                  /\ LinesOf(obj, i, "v") = objects[i].me.nverts
        /\ pc \in {"normals", "faces"} =>
              uv_unique_count = UvCountIn(Ob.me, SortedOrder(Ob.me))
        /\ pc = "faces" =>
              no_unique_count = NoCountIn(Ob.me, SortedOrder(Ob.me))
        /\ pc \in {"loop", "done"} =>
              /\ totverts = 1 + SortedTotals(obi)[1]
              /\ totuvco = 1 + SortedTotals(obi)[2]
              /\ totno = 1 + SortedTotals(obi)[3]

\* Two objects are complete under EXPORT_KEEP_VERT_ORDER; the sort would
\* have turned the first one's faces round (material 1 before material 0),
\* and the two faces carry UVs and normals that differ before rounding and
\* are pooled after it.
C20_Witness ==
    /\ opt.EXPORT_KEEP_VERT_ORDER
    /\ pc = "done"
    /\ obi = 2
    /\ WrittenMesh(objects[1]) /\ WrittenMesh(objects[2])
    /\ SortedOrder(objects[1].me) = <<1, 0>>
    /\ FaceOrderOf(1) = <<0, 1>>
    /\ objects[1].me.polygons[1].material_index = 1
    /\ objects[1].me.polygons[2].material_index = 0
    /\ objects[1].me.polygons[1].use_smooth # objects[1].me.polygons[2].use_smooth
    /\ objects[1].me.loops[1].uv # objects[1].me.loops[4].uv
    /\ LinesOf(obj, 1, "vt") = 4
    /\ LinesOf(obj, 1, "vn") = 1
    /\ totverts = 9 /\ totuvco = 9 /\ totno = 3

----------------------------------------------------------------------------
(* C21 *)

\* The 'usemtl' lines of the OBJ file and the 'newmtl' lines of the MTL file.
UsemtlLines == {k \in 1..Len(obj) : obj[k].t = "usemtl"}

NewmtlLines == {k \in 1..Len(mtl) : mtl[k].t = "newmtl"}

UsedNames == {obj[k].x : k \in UsemtlLines}

\* The number written on the '# Material Count' line.
StatedMaterialCount ==
    mtl[CHOOSE k \in 1..Len(mtl) : mtl[k].t = "# Material Count"].x

RegisteredKeys == {mtl_dict[i].key : i \in 1..Len(mtl_dict)}

\* C21: with EXPORT_MTL, once both files are written, every name on a
\* 'usemtl' line other than "(null)" is the name of exactly one 'newmtl'
\* block, every 'newmtl' block has its name on at least one 'usemtl' line,
\* and the '# Material Count' line gives the number of 'newmtl' blocks,
\* which is the number of distinct registered keys; while the objects are
\* written, the registry holds one entry per key, under names that differ,
\* and these names are those of the 'usemtl' lines other than "(null)".
C21_FilesConsistent ==
    opt.EXPORT_MTL =>
        /\ Cardinality(RegisteredKeys) = Len(mtl_dict)
        /\ \A i, j \in 1..Len(mtl_dict) :
              mtl_dict[i].name = mtl_dict[j].name => i = j
        /\ UsedNames \ {TextNull} \subseteq
              {mtl_dict[i].name : i \in 1..Len(mtl_dict)}
        /\ {mtl_dict[i].name : i \in 1..Len(mtl_dict)} \subseteq UsedNames
        /\ pc = "done" =>
              /\ \A n \in UsedNames \ {TextNull} :
                    Cardinality({k \in NewmtlLines : mtl[k].x = n}) = 1
              /\ \A k \in NewmtlLines : mtl[k].x \in UsedNames
              /\ Cardinality({k \in 1..Len(mtl) :
                                 mtl[k].t = "# Material Count"}) = 1
              /\ StatedMaterialCount = Cardinality(NewmtlLines)
              /\ StatedMaterialCount = Cardinality(RegisteredKeys)

\* Both files are written for a mesh of four slots: two materials whose
\* names clash, the first of them once more, and an empty slot; the OBJ file
\* has four 'usemtl' lines, one of them "(null)", and the MTL file two
\* blocks, one under a name with a suffix.
C21_Witness ==
    /\ opt.EXPORT_MTL
    /\ pc = "done"
    /\ Cardinality(UsemtlLines) = 4
    /\ TextNull \in UsedNames
    /\ Cardinality(NewmtlLines) = 2
    /\ StatedMaterialCount = 2
    /\ NameABC4 \in UsedNames
    /\ NameABCNone \in UsedNames
    /\ Cardinality({k \in UsemtlLines : obj[k].x = NameABC4}) = 2

====
